---- MODULE Spec2Model ----
(***************************************************************************)
(* Knowledge-state engine of skill-issue: the persisted mastery store      *)
(* (knowledge_state.json), its operations (init_domain, update_node,       *)
(* apply_decay, get_weak_nodes) and the retroactive bootstrap analyzer     *)
(* (extract_messages, analyze_sessions, apply_analysis_to_state).          *)
(*                                                                         *)
(* Mastery values are exact decimals held as integers in units of 1/Scale. *)
(* Time is held in ticks of 1/TicksPerDay day; timedelta.days is the       *)
(* floor division of a tick difference by TicksPerDay.                     *)
(***************************************************************************)
EXTENDS Integers, Sequences, FiniteSets, TLC

\* ------------------------------------------------------------------ bounds
MaxOps == 2
MaxTime == 9
MaxTurns == 4
MaxSleepTime == 21
MaxDecayOps == 3
MaxLines == 3
MaxTranscript == 8
MaxMixed == 4
MaxStreak == 12
MaxHits == 2
MaxDomains == 4
MaxSessions == 3
MaxBlocks == 4
MaxWrites == 2

Max(a, b) == IF a >= b THEN a ELSE b
Min(a, b) == IF a <= b THEN a ELSE b

\* --------------------------------------------------------------- constants
TicksPerDay == 2
Scale == 10 ^ (Max(MaxOps, MaxDecayOps) + 2)

EMA_ALPHA == 3
DECAY_GRACE_DAYS == 3
DECAY_RATE_PER_DAY == Scale \div 50

MASTERY_THRESHOLDS ==
    [mastered |-> (85 * Scale) \div 100,
     strong |-> (70 * Scale) \div 100,
     developing |-> (40 * Scale) \div 100,
     weak |-> 0]

NULL == -1

\* The knowledge_graphs directory: domain "A" and "B" have a graph file,
\* domain "X" has none.  Weights are reuse_weight in units of 1/100.
GRAPHS_DIR ==
    [A |-> <<[id |-> "a1", reuse_weight |-> 90],
             [id |-> "a2", reuse_weight |-> 50],
             [id |-> "a3", reuse_weight |-> 50]>>,
     B |-> <<[id |-> "b1", reuse_weight |-> 50]>>]

AllDomains == {"A", "B", "X"}
AllNodeIds == {"a1", "a2", "a3", "b1"}
Scores == {0, 1, 2, 3, 7}

\* store: the contents of knowledge_state.json; now: the clock, in ticks;
\* last: the operation run last and what it returned; base: for every
\* record, the mastery its last scoring update left; ops: the number of
\* operations run so far; inp, out: the argument and the result of a function
\* of the analyzer applied on its own; procs: the processes that work on the
\* store concurrently, each with its position in update_node and the state
\* dict it holds in memory; profile: the contents of profile.json.
VARIABLES store, now, last, base, ops, inp, out, procs, profile

vars == <<store, now, last, base, ops, inp, out, procs, profile>>

storeVars == <<store, now, last, base, ops>>
funVars == <<inp, out>>

\* ------------------------------------------------------------ pure helpers
list_domains == DOMAIN GRAPHS_DIR

GraphExists(domain) == domain \in DOMAIN GRAPHS_DIR

load_graph(domain) == GRAPHS_DIR[domain]

GraphNodeIds(domain) ==
    {load_graph(domain)[i].id : i \in 1..Len(load_graph(domain))}

ZeroRecord ==
    [mastery |-> 0, attempts |-> 0, last_seen |-> NULL, status |-> "weak"]

load_state_default == [d \in {} |-> [n \in {} |-> ZeroRecord]]

_compute_status(mastery) ==
    IF mastery >= MASTERY_THRESHOLDS.mastered THEN "mastered"
    ELSE IF mastery >= MASTERY_THRESHOLDS.strong THEN "strong"
    ELSE IF mastery >= MASTERY_THRESHOLDS.developing THEN "developing"
    ELSE "weak"

\* init_domain that writes the zero-state record for every node of the
\* graph, tracked or not.
init_domain_ResetsRecords(state, domain) ==
    LET cur == IF domain \in DOMAIN state THEN state[domain]
               ELSE [n \in {} |-> ZeroRecord]
        nodes == [n \in (DOMAIN cur) \cup GraphNodeIds(domain) |->
                     IF n \in GraphNodeIds(domain) THEN ZeroRecord ELSE cur[n]]
    IN [d \in (DOMAIN state) \cup {domain} |->
           IF d = domain THEN nodes ELSE state[d]]

\* init_domain that keeps the records of the nodes of the graph alone.
init_domain_GraphNodesOnly(state, domain) ==
    LET cur == IF domain \in DOMAIN state THEN state[domain]
               ELSE [n \in {} |-> ZeroRecord]
        nodes == [n \in GraphNodeIds(domain) |->
                     IF n \in DOMAIN cur THEN cur[n] ELSE ZeroRecord]
    IN [d \in (DOMAIN state) \cup {domain} |->
           IF d = domain THEN nodes ELSE state[d]]

\* init_domain on a loaded state; the caller guards on GraphExists.
init_domain(state, domain) ==
    LET cur == IF domain \in DOMAIN state THEN state[domain]
               ELSE [n \in {} |-> ZeroRecord]
        nodes == [n \in (DOMAIN cur) \cup GraphNodeIds(domain) |->
                     IF n \in DOMAIN cur THEN cur[n] ELSE ZeroRecord]
    IN [d \in (DOMAIN state) \cup {domain} |->
           IF d = domain THEN nodes ELSE state[d]]

score_to_mastery(score) ==
    CASE score = 0 -> 0
      [] score = 1 -> (3 * Scale) \div 10
      [] score = 2 -> (7 * Scale) \div 10
      [] score = 3 -> Scale
      [] OTHER -> 0

\* The EMA with the two weights exchanged.
EmaBlend_SwappedWeights(old_mastery, new_observation) ==
    ((10 - EMA_ALPHA) * new_observation + EMA_ALPHA * old_mastery) \div 10

EmaBlend(old_mastery, new_observation) ==
    (EMA_ALPHA * new_observation + (10 - EMA_ALPHA) * old_mastery) \div 10

UpdatedNode(node, score, t) ==
    LET m == Max(0, Min(Scale, EmaBlend(node.mastery, score_to_mastery(score))))
    IN [mastery |-> m,
        attempts |-> node.attempts + 1,
        last_seen |-> t,
        status |-> _compute_status(m)]

\* update_node without the lazy init_domain: a domain with no store entry
\* ends in KeyError.
update_node_NoLazyInit(state, domain, node_id, score, t) ==
    IF domain \notin DOMAIN state
    THEN [err |-> "KeyError", state |-> state, node |-> ZeroRecord]
    ELSE
      LET old == IF node_id \in DOMAIN state[domain] THEN state[domain][node_id]
                 ELSE ZeroRecord
          new == UpdatedNode(old, score, t)
          nodes == [n \in (DOMAIN state[domain]) \cup {node_id} |->
                       IF n = node_id THEN new ELSE state[domain][n]]
      IN [err |-> "none",
          state |-> [d \in DOMAIN state |-> IF d = domain THEN nodes ELSE state[d]],
          node |-> new]

\* update_node that saves the entry of the updated domain alone.
update_node_SavesDomainOnly(state, domain, node_id, score, t) ==
    IF domain \notin DOMAIN state /\ ~GraphExists(domain)
    THEN [err |-> "FileNotFoundError", state |-> state, node |-> ZeroRecord]
    ELSE
      LET s1 == IF domain \in DOMAIN state THEN state
                ELSE init_domain(state, domain)
          old == IF node_id \in DOMAIN s1[domain] THEN s1[domain][node_id]
                 ELSE ZeroRecord
          new == UpdatedNode(old, score, t)
          nodes == [n \in (DOMAIN s1[domain]) \cup {node_id} |->
                       IF n = node_id THEN new ELSE s1[domain][n]]
      IN [err |-> "none",
          state |-> [d \in {domain} |-> nodes],
          node |-> new]

\* update_node that stamps last_seen on every record of the domain.
update_node_StampsDomain(state, domain, node_id, score, t) ==
    IF domain \notin DOMAIN state /\ ~GraphExists(domain)
    THEN [err |-> "FileNotFoundError", state |-> state, node |-> ZeroRecord]
    ELSE
      LET s1 == IF domain \in DOMAIN state THEN state
                ELSE init_domain(state, domain)
          old == IF node_id \in DOMAIN s1[domain] THEN s1[domain][node_id]
                 ELSE ZeroRecord
          new == UpdatedNode(old, score, t)
          nodes == [n \in (DOMAIN s1[domain]) \cup {node_id} |->
                       IF n = node_id THEN new
                       ELSE [s1[domain][n] EXCEPT !.last_seen = t]]
      IN [err |-> "none",
          state |-> [d \in DOMAIN s1 |-> IF d = domain THEN nodes ELSE s1[d]],
          node |-> new]

\* update_node: the record [err, state, node] it ends with.
update_node(state, domain, node_id, score, t) ==
    IF domain \notin DOMAIN state /\ ~GraphExists(domain)
    THEN [err |-> "FileNotFoundError", state |-> state, node |-> ZeroRecord]
    ELSE
      LET s1 == IF domain \in DOMAIN state THEN state
                ELSE init_domain(state, domain)
          old == IF node_id \in DOMAIN s1[domain] THEN s1[domain][node_id]
                 ELSE ZeroRecord
          new == UpdatedNode(old, score, t)
          nodes == [n \in (DOMAIN s1[domain]) \cup {node_id} |->
                       IF n = node_id THEN new ELSE s1[domain][n]]
      IN [err |-> "none",
          state |-> [d \in DOMAIN s1 |-> IF d = domain THEN nodes ELSE s1[d]],
          node |-> new]

days_since(t, last_seen) == (t - last_seen) \div TicksPerDay

\* The decay of one record with the status left as it was.
DecayedNode_StaleStatus(node, t) ==
    IF node.last_seen = NULL THEN node
    ELSE IF days_since(t, node.last_seen) > DECAY_GRACE_DAYS
    THEN [node EXCEPT !.mastery =
             Max(0, node.mastery
                    - (days_since(t, node.last_seen) - DECAY_GRACE_DAYS) * DECAY_RATE_PER_DAY)]
    ELSE node

\* The decay of one record without the floor at 0.0.
DecayedNode_NoFloor(node, t) ==
    IF node.last_seen = NULL THEN node
    ELSE IF days_since(t, node.last_seen) > DECAY_GRACE_DAYS
    THEN LET m == node.mastery
                  - (days_since(t, node.last_seen) - DECAY_GRACE_DAYS) * DECAY_RATE_PER_DAY
         IN [node EXCEPT !.mastery = m, !.status = _compute_status(m)]
    ELSE node

\* The decay of one record without the grace period.
DecayedNode_NoGrace(node, t) ==
    IF node.last_seen = NULL THEN node
    ELSE IF days_since(t, node.last_seen) > 0
    THEN LET m == Max(0, node.mastery - days_since(t, node.last_seen) * DECAY_RATE_PER_DAY)
         IN [node EXCEPT !.mastery = m, !.status = _compute_status(m)]
    ELSE node

\* The loop body of apply_decay for one record.
DecayedNode(node, t) ==
    IF node.last_seen = NULL THEN node
    ELSE IF days_since(t, node.last_seen) > DECAY_GRACE_DAYS
    THEN LET decay_days == days_since(t, node.last_seen) - DECAY_GRACE_DAYS
             decay_amount == decay_days * DECAY_RATE_PER_DAY
             m == Max(0, node.mastery - decay_amount)
         IN [node EXCEPT !.mastery = m, !.status = _compute_status(m)]
    ELSE node

apply_decay(state, t) ==
    [d \in DOMAIN state |-> [n \in DOMAIN state[d] |-> DecayedNode(state[d][n], t)]]


\* The priority that leaves the mastery out.
get_node_priority_IgnoresMastery(state, domain, node_id) ==
    LET graph == load_graph(domain)
        found == {i \in 1..Len(graph) : graph[i].id = node_id}
    IN IF found = {} THEN 0
       ELSE graph[CHOOSE i \in found : \A j \in found : i <= j].reuse_weight * Scale

\* reuse_weight * (1 - mastery), in units of 1/(100 * Scale)
get_node_priority(state, domain, node_id) ==
    LET graph == load_graph(domain)
        found == {i \in 1..Len(graph) : graph[i].id = node_id}
    IN IF found = {} THEN 0
       ELSE LET node_info == graph[CHOOSE i \in found : \A j \in found : i <= j]
            IN IF domain \notin DOMAIN state THEN node_info.reuse_weight * Scale
               ELSE IF node_id \notin DOMAIN state[domain]
                    THEN node_info.reuse_weight * Scale
               ELSE node_info.reuse_weight * (Scale - state[domain][node_id].mastery)

\* A sort by priority that puts an element before the earlier elements of
\* the same priority.
RECURSIVE SortByPriority_Unstable(_)
SortByPriority_Unstable(results) ==
    IF results = <<>> THEN <<>>
    ELSE LET n == Len(results)
             sorted == SortByPriority_Unstable(SubSeq(results, 1, n - 1))
             x == results[n]
             k == Cardinality({i \in 1..Len(sorted) : sorted[i].priority > x.priority})
         IN SubSeq(sorted, 1, k) \o <<x>> \o SubSeq(sorted, k + 1, Len(sorted))

\* list.sort(key=lambda x: -x[1]) is stable: insert each element after the
\* elements whose priority is greater or equal.
RECURSIVE SortByPriority(_)
SortByPriority(results) ==
    IF results = <<>> THEN <<>>
    ELSE LET n == Len(results)
             sorted == SortByPriority(SubSeq(results, 1, n - 1))
             x == results[n]
             k == Cardinality({i \in 1..Len(sorted) : sorted[i].priority >= x.priority})
         IN SubSeq(sorted, 1, k) \o <<x>> \o SubSeq(sorted, k + 1, Len(sorted))

\* get_weak_nodes: the persisted state it leaves and the list it returns;
\* the caller guards on GraphExists.
get_weak_nodes(disk, domain, top_n) ==
    LET graph == load_graph(domain)
        state == IF domain \in DOMAIN disk THEN disk ELSE init_domain(disk, domain)
        results == [i \in 1..Len(graph) |->
                      [node_id |-> graph[i].id,
                       priority |-> get_node_priority(state, domain, graph[i].id),
                       node |-> graph[i],
                       node_state |-> IF graph[i].id \in DOMAIN state[domain]
                                      THEN state[domain][graph[i].id]
                                      ELSE ZeroRecord]]
        sorted == SortByPriority(results)
    IN [state |-> state,
        value |-> SubSeq(sorted, 1, Min(top_n, Len(sorted)))]

\* get_all_nodes: the persisted state it leaves and the list it returns, in
\* graph order; the caller guards on GraphExists.
get_all_nodes(disk, domain) ==
    LET graph == load_graph(domain)
        state == IF domain \in DOMAIN disk THEN disk ELSE init_domain(disk, domain)
    IN [state |-> state,
        value |-> [i \in 1..Len(graph) |->
                      [node_id |-> graph[i].id,
                       node |-> graph[i],
                       node_state |-> IF graph[i].id \in DOMAIN state[domain]
                                      THEN state[domain][graph[i].id]
                                      ELSE ZeroRecord]]]

\* ----------------------------------------------------- bootstrap analyzer
\* A text is what the regex lists and the concept matcher see of it: the
\* number of QUESTION_MARKERS that match (q), the number of
\* CONFIDENCE_MARKERS that match (c) and the node ids whose name, id variant
\* or alias matches (mentions).
Text(q, c, mentions) == [q |-> q, c |-> c, mentions |-> mentions]

EmptyText == Text(0, 0, {})

\* The shapes of one line of a session JSONL file.
MsgLine(role, text) == [kind |-> "msg", role |-> role, text |-> text]
OtherLine == [kind |-> "other"]
BlankLine == [kind |-> "blank"]
BadJsonLine == [kind |-> "badjson"]
NonObjectLine == [kind |-> "nonobject"]
BadMessageLine == [kind |-> "badmessage"]

\* extract_messages: the loop over the lines; json.JSONDecodeError is caught
\* per line, every other exception by the outer handler, which returns [].
RECURSIVE ExtractFrom(_, _, _)
ExtractFrom(lines, i, messages) ==
    IF i > Len(lines) THEN messages
    ELSE LET line == lines[i]
         IN CASE line.kind = "badjson" -> ExtractFrom(lines, i + 1, messages)
              [] line.kind = "nonobject" -> <<>>
              [] line.kind = "other" -> ExtractFrom(lines, i + 1, messages)
              [] line.kind = "badmessage" -> <<>>
              [] line.kind = "blank" -> ExtractFrom(lines, i + 1, messages)
              [] OTHER ->
                   ExtractFrom(lines, i + 1,
                               Append(messages, [role |-> line.role, text |-> line.text]))

extract_messages(session) == ExtractFrom(session, 1, <<>>)

\* The concept matcher without the restriction to the graph of the domain.
detect_concepts_in_text_AnyGraph(text, domain) ==
    IF ~GraphExists(domain) THEN {}
    ELSE {n \in AllNodeIds : n \in text.mentions}

detect_concepts_in_text(text, domain) ==
    IF ~GraphExists(domain) THEN {}
    ELSE {n \in GraphNodeIds(domain) : n \in text.mentions}

\* The patterns of the two marker lists, by their position in the list.
QUESTION_MARKERS == 1..16
CONFIDENCE_MARKERS == 1..9

\* A classification in which the question markers win a tie.
classify_message_intent_QuestionWinsTies(text) ==
    IF text.q >= text.c /\ text.q > 0 THEN "question"
    ELSE IF text.c > 0 THEN "assertion"
    ELSE "neutral"

\* classify_message_intent: text.q and text.c are question_count and
\* confidence_count, the numbers of patterns of each list that match.
classify_message_intent(text) ==
    IF text.q > text.c THEN "question"
    ELSE IF text.c > 0 THEN "assertion"
    ELSE "neutral"

QuestionDelta == -((15 * Scale) \div 100)
AssertionDelta == (20 * Scale) \div 100
NeutralDelta == (5 * Scale) \div 100
ClaudeDelta == (5 * Scale) \div 100
ScoreCap == (80 * Scale) \div 100

NoConcepts == [n \in {} |-> [score |-> 0, signals |-> <<>>]]

AddSignal(concepts, ids, delta, tag) ==
    [n \in (DOMAIN concepts) \cup ids |->
        LET cur == IF n \in DOMAIN concepts THEN concepts[n]
                   ELSE [score |-> 0, signals |-> <<>>]
        IN IF n \in ids
           THEN [score |-> cur.score + delta, signals |-> Append(cur.signals, tag)]
           ELSE cur]

\* One user turn that scores every concept of the assistant's text, also
\* those of the user's text.
ScoreTurn_ClaudeAlways(concepts, user_text, claude_text, domain) ==
    LET intent == classify_message_intent(user_text)
        user_concepts == detect_concepts_in_text(user_text, domain)
        claude_concepts == detect_concepts_in_text(claude_text, domain)
        tagged == IF intent = "question"
                  THEN AddSignal(concepts, user_concepts, QuestionDelta, "question")
                  ELSE IF intent = "assertion"
                  THEN AddSignal(concepts, user_concepts, AssertionDelta, "assertion")
                  ELSE AddSignal(concepts, user_concepts, NeutralDelta, "neutral_user")
    IN AddSignal(tagged, claude_concepts, ClaudeDelta, "claude_explained")

\* One user turn of analyze_sessions, for one domain.
ScoreTurn(concepts, user_text, claude_text, domain) ==
    LET intent == classify_message_intent(user_text)
        user_concepts == detect_concepts_in_text(user_text, domain)
        claude_concepts == detect_concepts_in_text(claude_text, domain)
        claude_only == claude_concepts \ user_concepts
        scored == IF intent = "question"
                  THEN AddSignal(concepts, user_concepts, QuestionDelta, "question")
                  ELSE IF intent = "assertion"
                  THEN AddSignal(concepts, user_concepts, AssertionDelta, "assertion")
                  ELSE AddSignal(concepts, user_concepts, NeutralDelta, "neutral_user")
    IN AddSignal(scored, claude_only, ClaudeDelta, "claude_explained")

RECURSIVE ScoreMessages(_, _, _)
ScoreMessages(results, messages, i) ==
    IF i > Len(messages) THEN results
    ELSE IF messages[i].role # "user" THEN ScoreMessages(results, messages, i + 1)
    ELSE LET claude_text == IF i + 1 <= Len(messages) /\ messages[i + 1].role = "assistant"
                            THEN messages[i + 1].text ELSE EmptyText
         IN ScoreMessages(
                [d \in DOMAIN results |->
                    ScoreTurn(results[d], messages[i].text, claude_text, d)],
                messages, i + 1)

RECURSIVE ScoreSessions(_, _, _)
ScoreSessions(results, sessions, k) ==
    IF k > Len(sessions) THEN results
    ELSE ScoreSessions(ScoreMessages(results, extract_messages(sessions[k]), 1),
                       sessions, k + 1)

\* The final clamp without its ceiling.
ClampScore_NoCeiling(raw) == Max(0, raw)

ClampScore(raw) == Max(0, Min(ScoreCap, raw))

\* ---- the running score as the binary64 value the code holds
\* The scores above are the sums of the deltas in exact arithmetic.  The
\* code adds Python floats (results[domain][concept]["score"] += 0.20 ...),
\* so each addition is rounded to the nearest binary64 value, ties to
\* even.  A binary64 value x is written [k, e] with x = k/20 + e * w,
\* w = 2^-57 / 5: k counts steps of 0.05 and e is the small offset from
\* k/20.  5 * x * 2^57 = k * 2^55 + e, and x is representable when
\* x * 2^57 is a whole multiple of the ulp of its binade.
RECURSIVE PowMod(_, _, _)
PowMod(b, n, m) ==
    IF n = 0 THEN 1 % m
    ELSE IF n % 2 = 1 THEN (b * PowMod(b, n - 1, m)) % m
    ELSE LET h == PowMod(b, n \div 2, m) IN (h * h) % m

\* The ulp, in units of 2^-57, of the binade of a value x >= 0.  Below
\* 2^-4 every sum of the deltas is a whole number of units, so 1 is enough.
FloatUlp(k, e) ==
    IF k > 40 \/ (k = 40 /\ e >= 0) THEN 64
    ELSE IF k > 20 \/ (k = 20 /\ e >= 0) THEN 32
    ELSE IF k > 10 \/ (k = 10 /\ e >= 0) THEN 16
    ELSE IF k > 5 \/ (k = 5 /\ e >= 0) THEN 8
    ELSE IF k >= 3 THEN 4
    ELSE IF k >= 2 THEN 2
    ELSE 1

\* Round-to-nearest, ties-to-even, of the exact value k/20 + e * w >= 0.
FloatRoundNonNeg(k, e) ==
    LET n == 5 * FloatUlp(k, e)
        m2 == ((k % (2 * n)) * PowMod(2, 55, 2 * n) + e) % (2 * n)
        m == m2 % n
    IN IF m = 0 THEN [k |-> k, e |-> e]
       ELSE IF 2 * m < n \/ (2 * m = n /\ m2 < n) THEN [k |-> k, e |-> e - m]
       ELSE [k |-> k, e |-> e + n - m]

FloatRound(k, e) ==
    IF k < 0 \/ (k = 0 /\ e < 0)
    THEN LET r == FloatRoundNonNeg(-k, -e) IN [k |-> -r.k, e |-> -r.e]
    ELSE FloatRoundNonNeg(k, e)

\* The float literal of k/20: 0.05 is FloatLit(1), 0.15 FloatLit(3),
\* 0.20 FloatLit(4), 0.8 FloatLit(16), 0.0 FloatLit(0).
FloatLit(k) == FloatRound(k, 0)

FloatNeg(x) == [k |-> -x.k, e |-> -x.e]

FloatAdd(x, y) == FloatRound(x.k + y.k, x.e + y.e)

FloatLess(x, y) == x.k < y.k \/ (x.k = y.k /\ x.e < y.e)

\* The delta each signal tag stands for, as the float the code adds.
FloatDelta(tag) ==
    IF tag = "question" THEN FloatNeg(FloatLit(3))
    ELSE IF tag = "assertion" THEN FloatLit(4)
    ELSE FloatLit(1)

\* The running sum in the order of the additions, which is the order in
\* which the tags were appended to the signals list.
RECURSIVE FloatSum(_, _, _)
FloatSum(signals, i, acc) ==
    IF i > Len(signals) THEN acc
    ELSE FloatSum(signals, i + 1, FloatAdd(acc, FloatDelta(signals[i])))

\* max(0.0, min(0.8, raw))
FloatClamp(raw) ==
    LET capped == IF FloatLess(FloatLit(16), raw) THEN FloatLit(16) ELSE raw
    IN IF FloatLess(capped, FloatLit(0)) THEN FloatLit(0) ELSE capped

\* The final score of a concept as the float analyze_sessions returns.
FloatScore(signals) == FloatClamp(FloatSum(signals, 1, FloatLit(0)))

Range(seq) == {seq[i] : i \in 1..Len(seq)}

\* find_project_sessions / find_all_sessions: the files of the projects
\* directory (in the order glob yields them) sorted by st_mtime, newest
\* first; sorted() is stable, also with reverse=True.
RECURSIVE find_project_sessions(_)
find_project_sessions(files) ==
    IF files = <<>> THEN <<>>
    ELSE LET n == Len(files)
             sorted == find_project_sessions(SubSeq(files, 1, n - 1))
             x == files[n]
             k == Cardinality({i \in 1..Len(sorted) : sorted[i].mtime >= x.mtime})
         IN SubSeq(sorted, 1, k) \o <<x>> \o SubSeq(sorted, k + 1, Len(sorted))

\* The scores of the dict analyze_sessions returns, as floats.
FloatScores(analysis) ==
    [d \in DOMAIN analysis.concepts |->
        [n \in DOMAIN analysis.concepts[d] |->
            FloatScore(analysis.concepts[d][n].signals)]]

\* analyze_sessions that reads every session it is given.
analyze_sessions_Unbounded(sessions, domains, max_sessions) ==
    LET raw == ScoreSessions([d \in Range(domains) |-> NoConcepts], sessions, 1)
    IN [order |-> domains,
        concepts |-> [d \in DOMAIN raw |->
                        [n \in DOMAIN raw[d] |->
                            [score |-> ClampScore(raw[d][n].score),
                             signals |-> raw[d][n].signals]]]]

\* analyze_sessions: domains is a list without repetitions; the result keeps
\* it as the iteration order of the returned dict.
analyze_sessions(sessions, domains, max_sessions) ==
    LET processed == SubSeq(sessions, 1, Min(max_sessions, Len(sessions)))
        raw == ScoreSessions([d \in Range(domains) |-> NoConcepts], processed, 1)
    IN [order |-> domains,
        concepts |-> [d \in DOMAIN raw |->
                        [n \in DOMAIN raw[d] |->
                            [score |-> ClampScore(raw[d][n].score),
                             signals |-> raw[d][n].signals]]]]

MergeStatus(score) ==
    IF score >= (70 * Scale) \div 100 THEN "strong"
    ELSE IF score >= (40 * Scale) \div 100 THEN "developing"
    ELSE "weak"

\* The merge of one domain that writes every analysed node, with or without
\* signals.
MergeNodes_IgnoresSignalCount(nodes, concepts, t) ==
    [n \in DOMAIN nodes |->
        IF n \in DOMAIN concepts
        THEN [mastery |-> concepts[n].score,
              attempts |-> Len(concepts[n].signals),
              last_seen |-> t,
              status |-> MergeStatus(concepts[n].score)]
        ELSE nodes[n]]

MergeNodes(nodes, concepts, t) ==
    [n \in DOMAIN nodes |->
        IF n \in DOMAIN concepts /\ Len(concepts[n].signals) > 0
        THEN [mastery |-> concepts[n].score,
              attempts |-> Len(concepts[n].signals),
              last_seen |-> t,
              status |-> MergeStatus(concepts[n].score)]
        ELSE nodes[n]]

\* The loop of apply_analysis_to_state that gives a domain without a graph
\* an empty store entry.
RECURSIVE MergeDomains_KeepsMissingDomain(_, _, _, _, _)
MergeDomains_KeepsMissingDomain(state, disk, analysis, i, t) ==
    IF i > Len(analysis.order) THEN state
    ELSE LET domain == analysis.order[i]
             concepts == analysis.concepts[domain]
         IN IF DOMAIN concepts = {}
            THEN MergeDomains_KeepsMissingDomain(state, disk, analysis, i + 1, t)
            ELSE IF domain \notin DOMAIN state /\ ~GraphExists(domain)
            THEN MergeDomains_KeepsMissingDomain(
                     [d \in (DOMAIN state) \cup {domain} |->
                         IF d = domain THEN [n \in {} |-> ZeroRecord] ELSE state[d]],
                     disk, analysis, i + 1, t)
            ELSE LET disk1 == IF domain \in DOMAIN state THEN disk
                              ELSE init_domain(disk, domain)
                     state1 == IF domain \in DOMAIN state THEN state ELSE disk1
                     state2 == [d \in DOMAIN state1 |->
                                  IF d = domain
                                  THEN MergeNodes(state1[d], concepts, t)
                                  ELSE state1[d]]
                 IN MergeDomains_KeepsMissingDomain(state2, disk1, analysis, i + 1, t)

\* The loop of apply_analysis_to_state over analysis.items(): state is the
\* dict in memory, disk the file; init_domain works on the file, and the
\* state is loaded again after it.
RECURSIVE MergeDomains(_, _, _, _, _)
MergeDomains(state, disk, analysis, i, t) ==
    IF i > Len(analysis.order) THEN state
    ELSE LET domain == analysis.order[i]
             concepts == analysis.concepts[domain]
         IN IF DOMAIN concepts = {} THEN MergeDomains(state, disk, analysis, i + 1, t)
            ELSE IF domain \notin DOMAIN state /\ ~GraphExists(domain)
            THEN MergeDomains(state, disk, analysis, i + 1, t)
            ELSE LET disk1 == IF domain \in DOMAIN state THEN disk
                              ELSE init_domain(disk, domain)
                     state1 == IF domain \in DOMAIN state THEN state ELSE disk1
                     state2 == [d \in DOMAIN state1 |->
                                  IF d = domain
                                  THEN MergeNodes(state1[d], concepts, t)
                                  ELSE state1[d]]
                 IN MergeDomains(state2, disk1, analysis, i + 1, t)

\* apply_analysis_to_state: the state it saves and returns.
apply_analysis_to_state(disk, analysis, t) == MergeDomains(disk, disk, analysis, 1, t)

ConceptsDetected(analysis) ==
    Cardinality({<<d, n>> \in AllDomains \X AllNodeIds :
                    d \in DOMAIN analysis.concepts /\ n \in DOMAIN analysis.concepts[d]})

\* run_analysis that applies the analysis on a dry run too.
run_analysis_IgnoresDryRun(disk, sessions, domains, max_sessions, dry_run, t) ==
    IF Len(sessions) = 0
    THEN [state |-> disk, status |-> "no_sessions", sessions_analyzed |-> 0]
    ELSE IF Len(domains) = 0
    THEN [state |-> disk, status |-> "no_domains", sessions_analyzed |-> 0]
    ELSE LET analysis == analyze_sessions(sessions, domains, max_sessions)
         IN [state |-> IF ConceptsDetected(analysis) > 0
                       THEN apply_analysis_to_state(disk, analysis, t)
                       ELSE disk,
             status |-> "success",
             sessions_analyzed |-> Min(Len(sessions), max_sessions),
             analysis |-> analysis,
             applied |-> ~dry_run]

\* run_analysis with explicit sessions and domains: the persisted state it
\* leaves and the summary it returns.
run_analysis(disk, sessions, domains, max_sessions, dry_run, t) ==
    IF Len(sessions) = 0
    THEN [state |-> disk, status |-> "no_sessions", sessions_analyzed |-> 0]
    ELSE IF Len(domains) = 0
    THEN [state |-> disk, status |-> "no_domains", sessions_analyzed |-> 0]
    ELSE LET analysis == analyze_sessions(sessions, domains, max_sessions)
         IN [state |-> IF ~dry_run /\ ConceptsDetected(analysis) > 0
                       THEN apply_analysis_to_state(disk, analysis, t)
                       ELSE disk,
             status |-> "success",
             sessions_analyzed |-> Min(Len(sessions), max_sessions),
             analysis |-> analysis,
             applied |-> ~dry_run]

\* --------------------------------------------------------------- onboarding
\* The domains of DOMAIN_SIGNALS, in its order.  A text is what the keyword
\* lists see of it: for every entry the number of its keywords that occur.
DOMAIN_SIGNALS ==
    <<"quantum-ml", "machine-learning", "data-science", "web-frontend",
      "backend-systems", "devops", "design-systems", "mobile", "computer-science">>

\* scored.sort(key=lambda x: -x[1]) is stable.
RECURSIVE SortByScore(_)
SortByScore(scored) ==
    IF scored = <<>> THEN <<>>
    ELSE LET n == Len(scored)
             sorted == SortByScore(SubSeq(scored, 1, n - 1))
             x == scored[n]
             k == Cardinality({i \in 1..Len(sorted) : sorted[i].score >= x.score})
         IN SubSeq(sorted, 1, k) \o <<x>> \o SubSeq(sorted, k + 1, Len(sorted))

RECURSIVE ScoredDomains(_, _)
ScoredDomains(text, i) ==
    IF i > Len(DOMAIN_SIGNALS) THEN <<>>
    ELSE (IF text[i] > 0 THEN <<[domain |-> DOMAIN_SIGNALS[i], score |-> text[i]]>>
          ELSE <<>>) \o ScoredDomains(text, i + 1)

\* infer_domains that leaves a full list as it is.
infer_domains_NoSwap(text, max_domains) ==
    LET scored == SortByScore(ScoredDomains(text, 1))
        cut == SubSeq(scored, 1, Min(max_domains, Len(scored)))
        top == [i \in 1..Len(cut) |-> cut[i].domain]
        top1 == IF "algorithms" \notin Range(top) /\ Len(top) < max_domains
                THEN Append(top, "algorithms")
                ELSE top
    IN IF top1 # <<>> THEN top1 ELSE <<"algorithms">>

\* infer_domains for max_domains >= 1.
infer_domains(text, max_domains) ==
    LET scored == SortByScore(ScoredDomains(text, 1))
        cut == SubSeq(scored, 1, Min(max_domains, Len(scored)))
        top == [i \in 1..Len(cut) |-> cut[i].domain]
        top1 == IF "algorithms" \notin Range(top) /\ Len(top) < max_domains
                THEN Append(top, "algorithms")
                ELSE IF "algorithms" \notin Range(top)
                THEN [top EXCEPT ![Len(top)] = "algorithms"]
                ELSE top
    IN IF top1 # <<>> THEN top1 ELSE <<"algorithms">>

\* ------------------------------------------------ challenge scores and XP
XP_TABLE == [score \in 0..3 |-> CASE score = 0 -> 0
                                  [] score = 1 -> 5
                                  [] score = 2 -> 12
                                  [] score = 3 -> 20]

\* The difficulty multipliers, in units of 1/2.
DIFF_MULT == [Apprentice |-> 2, Practitioner |-> 3, Expert |-> 4, Master |-> 6]

Difficulties == DOMAIN DIFF_MULT

\* The profile init_profile writes: the fields update reads and writes.
DefaultProfile ==
    [overall_level |-> "Apprentice", total_xp |-> 0, total_challenges |-> 0,
     scores |-> [score \in 0..3 |-> 0], current_streak |-> 0, best_streak |-> 0,
     topics |-> <<>>, milestones |-> <<>>, next_challenge_id |-> 1]

\* The arguments for which the exact product ends in .5 and the product of
\* the doubles lies below it: 5 * 2.0 * (1.0 + 9 * 0.15) is
\* 23.499999999999996 and 20 * 1.5 * (1.0 + 7 * 0.15) is 61.49999999999999.
FloatBelowHalf == {<<1, "Expert", 9, FALSE>>, <<3, "Practitioner", 7, FALSE>>}

\* calculate_xp without the cap of the streak multiplier.
calculate_xp_NoCap(score, difficulty, streak, hint_used) ==
    LET num == XP_TABLE[score] * DIFF_MULT[difficulty] * (20 + 3 * streak)
               * (IF hint_used THEN 3 ELSE 4)
        q == num \div 160
        r == num % 160
    IN IF 2 * r < 160 THEN q
       ELSE IF 2 * r > 160 THEN q + 1
       ELSE IF q % 2 = 0 THEN q ELSE q + 1

\* calculate_xp: round(base * diff_m * streak_m * hint_p).  The product is
\* held in units of 1/160 (diff_m in 1/2, streak_m in 1/20, hint_p in 1/4);
\* round() takes a product that ends in .5 to the even neighbour.
calculate_xp(score, difficulty, streak, hint_used) ==
    LET num == XP_TABLE[score] * DIFF_MULT[difficulty] * Min(20 + 3 * streak, 50)
               * (IF hint_used THEN 3 ELSE 4)
        q == num \div 160
        r == num % 160
    IN IF 2 * r < 160 THEN q
       ELSE IF 2 * r > 160 THEN q + 1
       ELSE IF <<score, difficulty, streak, hint_used>> \in FloatBelowHalf THEN q
       ELSE IF q % 2 = 0 THEN q ELSE q + 1

LEVEL_THRESHOLDS ==
    <<[xp |-> 5000, level |-> "Master"], [xp |-> 2000, level |-> "Expert"],
      [xp |-> 500, level |-> "Practitioner"], [xp |-> 0, level |-> "Apprentice"]>>

get_overall_level(xp) ==
    IF \E i \in 1..Len(LEVEL_THRESHOLDS) : xp >= LEVEL_THRESHOLDS[i].xp
    THEN LEVEL_THRESHOLDS[CHOOSE i \in 1..Len(LEVEL_THRESHOLDS) :
                             /\ xp >= LEVEL_THRESHOLDS[i].xp
                             /\ \A j \in 1..(i - 1) : xp < LEVEL_THRESHOLDS[j].xp].level
    ELSE "Apprentice"

get_topic_level(topic_data) ==
    LET scores == topic_data.scores
        total == topic_data.attempts
        recent == IF Len(scores) > 20 THEN SubSeq(scores, Len(scores) - 19, Len(scores))
                  ELSE scores
        good == Cardinality({i \in 1..Len(recent) : recent[i] >= 2})
    IN IF Len(recent) = 0 THEN "Apprentice"
       ELSE IF 100 * good >= 90 * Len(recent) /\ total >= 15 THEN "Master"
       ELSE IF 100 * good >= 75 * Len(recent) /\ total >= 10 THEN "Expert"
       ELSE IF 100 * good >= 55 * Len(recent) /\ total >= 5 THEN "Practitioner"
       ELSE "Apprentice"

\* The challenge types recorded in the session files of the sessions
\* directory, which nothing modelled here writes.
UsedTypes == {}

AllSix == {"pen-paper", "explain-back", "predict", "spot-bug", "complexity",
           "connect-dots"}

\* check_milestones: the new milestones, in the order it appends them; a
\* milestone is its type and its topic ("" when it has none).
check_milestones(p, score, topic, t) ==
    LET existing == {<<p.milestones[i].type, p.milestones[i].topic>> :
                        i \in 1..Len(p.milestones)}
        One(cond, type, tp) ==
            IF cond /\ <<type, tp>> \notin existing
            THEN <<[type |-> type, topic |-> tp, date |-> t]>> ELSE <<>>
        level == IF topic \in DOMAIN p.topics THEN p.topics[topic].level ELSE "none"
    IN One(p.total_challenges = 1, "first_challenge", "")
       \o One(p.current_streak >= 5, "streak_5", "")
       \o One(p.current_streak >= 10, "streak_10", "")
       \o One(p.current_streak >= 20, "streak_20", "")
       \o One(level = "Expert", "topic_expert", topic)
       \o One(level = "Master", "topic_master", topic)
       \o One(p.total_xp >= 500, "xp_500", "")
       \o One(p.total_xp >= 2000, "xp_2000", "")
       \o One(p.total_xp >= 5000, "xp_5000", "")
       \o One(AllSix \subseteq UsedTypes, "all_types", "")

\* update: the profile it saves and what it returns; a score that
\* XP_TABLE does not hold ends in KeyError before anything is saved.
update(p, challenge_id, score, topic, difficulty, hint_used, t) ==
    IF score \notin DOMAIN XP_TABLE
    THEN [err |-> "KeyError", profile |-> p, xp_earned |-> 0]
    ELSE
      LET streak == IF score >= 2 THEN p.current_streak + 1
                    ELSE IF score = 0 THEN 0
                    ELSE p.current_streak
          xp == calculate_xp(score, difficulty, streak, hint_used)
          old == IF topic \in DOMAIN p.topics THEN p.topics[topic]
                 ELSE [attempts |-> 0, scores |-> <<>>, level |-> "Apprentice"]
          appended == Append(old.scores, score)
          kept == IF Len(appended) > 50
                  THEN SubSeq(appended, Len(appended) - 49, Len(appended))
                  ELSE appended
          counted == [attempts |-> old.attempts + 1, scores |-> kept]
          topic_data == [attempts |-> counted.attempts, scores |-> kept,
                         level |-> get_topic_level(counted), last_challenged |-> t]
          p1 == [overall_level |-> get_overall_level(p.total_xp + xp),
                 total_xp |-> p.total_xp + xp,
                 total_challenges |-> p.total_challenges + 1,
                 scores |-> [p.scores EXCEPT ![score] = @ + 1],
                 current_streak |-> streak,
                 best_streak |-> Max(p.best_streak, streak),
                 topics |-> [k \in (DOMAIN p.topics) \cup {topic} |->
                               IF k = topic THEN topic_data ELSE p.topics[k]],
                 milestones |-> p.milestones,
                 next_challenge_id |-> challenge_id + 1]
          new_milestones == check_milestones(p1, score, topic, t)
      IN [err |-> "none",
          profile |-> [p1 EXCEPT !.milestones = p.milestones \o new_milestones],
          xp_earned |-> xp]

\* The score argument of the 'score' and 'graph update' parsers:
\* type=int, choices=[0, 1, 2, 3].
ScoreChoices == {0, 1, 2, 3}

\* A parser that takes every integer for the score.
ParseScore_NoChoices(score) == "none"

ParseScore(score) == IF score \in ScoreChoices THEN "none" ELSE "SystemExit"

\* ------------------------------------------------------------------ actions
\* The mastery each record's last scoring update left: the records whose
\* last_seen changed in the step take their new mastery.
Rescored(old, new, sc) ==
    [k \in {<<d, n>> \in AllDomains \X AllNodeIds :
               d \in DOMAIN new /\ n \in DOMAIN new[d] /\ new[d][n].last_seen # NULL} |->
        IF k[1] \in DOMAIN old /\ k[2] \in DOMAIN old[k[1]] /\ k \in DOMAIN sc
           /\ old[k[1]][k[2]].last_seen = new[k[1]][k[2]].last_seen
           /\ old[k[1]][k[2]].attempts = new[k[1]][k[2]].attempts
        THEN sc[k]
        ELSE new[k[1]][k[2]].mastery]

TickShort == TicksPerDay * DECAY_GRACE_DAYS + 1
TickLong == TicksPerDay * (DECAY_GRACE_DAYS + 1) + 1

\* The transcripts of the lifecycle specification: k user turns with the
\* same text, each answered by an assistant turn that mentions "a2".
ReplyText == Text(0, 0, {"a2"})

RECURSIVE Dialogue(_, _)
Dialogue(k, text) ==
    IF k = 0 THEN <<>>
    ELSE <<MsgLine("user", text), MsgLine("assistant", ReplyText)>> \o Dialogue(k - 1, text)

UserTexts ==
    {Text(1, 0, {"a1", "b1"}), Text(1, 1, {"a1", "b1"}), Text(0, 0, {"a1", "b1"})}

DomainLists == {<<"A", "B">>, <<"B", "A">>, <<"A", "X">>}

Init ==
    /\ store = load_state_default
    /\ now = 0
    /\ last = [op |-> "none"]
    /\ base = <<>>
    /\ ops = 0
    /\ inp = <<>>
    /\ out = [op |-> "none"]
    /\ procs = <<>>
    /\ profile = DefaultProfile

Tick ==
    /\ UNCHANGED <<inp, out, procs, profile>>
    /\ \E dt \in {TickShort, TickLong} :
          /\ now + dt <= MaxTime
          /\ now' = now + dt
    /\ last' = [op |-> "tick"]
    /\ UNCHANGED <<store, base, ops>>

InitDomain ==
    /\ UNCHANGED <<inp, out, procs, profile>>
    /\ ops < MaxOps
    /\ ops' = ops + 1
    /\ \E domain \in AllDomains :
       /\ IF GraphExists(domain)
          THEN /\ store' = init_domain(store, domain)
               /\ last' = [op |-> "init_domain", domain |-> domain, err |-> "none"]
          ELSE /\ store' = store
               /\ last' = [op |-> "init_domain", domain |-> domain,
                           err |-> "FileNotFoundError"]
       /\ UNCHANGED <<now, base>>

UpdateNode ==
    /\ UNCHANGED <<inp, out, procs, profile>>
    /\ ops < MaxOps
    /\ \E domain \in AllDomains, node_id \in AllNodeIds, score \in Scores :
          LET r == update_node(store, domain, node_id, score, now)
          IN /\ store' = r.state
             /\ last' = [op |-> "update_node", domain |-> domain, node_id |-> node_id,
                         score |-> score, err |-> r.err, node |-> r.node,
                         first |-> ~(domain \in DOMAIN store
                                     /\ node_id \in DOMAIN store[domain]),
                         wrote |-> r.state # store]
             /\ base' = Rescored(store, r.state, base)
    /\ ops' = ops + 1
    /\ UNCHANGED now

ApplyDecay ==
    /\ UNCHANGED <<inp, out, procs, profile>>
    /\ ops < MaxOps
    /\ store' = apply_decay(store, now)
    /\ last' = [op |-> "apply_decay", again |-> last.op = "apply_decay",
                wrote |-> apply_decay(store, now) # store]
    /\ ops' = ops + 1
    /\ UNCHANGED <<now, base>>

GetWeakNodes ==
    /\ UNCHANGED <<inp, out, procs, profile>>
    /\ ops < MaxOps
    /\ ops' = ops + 1
    /\ \E domain \in AllDomains, top_n \in {1, 5} :
       /\ IF GraphExists(domain)
          THEN LET r == get_weak_nodes(store, domain, top_n)
               IN /\ store' = r.state
                  /\ last' = [op |-> "get_weak_nodes", domain |-> domain,
                              err |-> "none", value |-> r.value,
                              wrote |-> r.state # store]
          ELSE /\ store' = store
               /\ last' = [op |-> "get_weak_nodes", domain |-> domain,
                           err |-> "FileNotFoundError", wrote |-> FALSE]
       /\ UNCHANGED <<now, base>>

RunAnalysis ==
    /\ UNCHANGED <<inp, out, procs, profile>>
    /\ ops < MaxOps
    /\ \E k \in 1..MaxTurns, text \in UserTexts, domains \in DomainLists,
          dry_run \in BOOLEAN :
          LET r == run_analysis(store, <<Dialogue(k, text)>>, domains, 50, dry_run, now)
          IN /\ store' = r.state
             /\ last' = [op |-> "run_analysis", analysis |-> r.analysis,
                         applied |-> r.applied,
                         sessions |-> <<Dialogue(k, text)>>,
                         wrote |-> r.state # store]
             /\ base' = Rescored(store, r.state, base)
    /\ ops' = ops + 1
    /\ UNCHANGED now

GetAllNodes ==
    /\ UNCHANGED <<inp, out, procs, profile>>
    /\ ops < MaxOps
    /\ ops' = ops + 1
    /\ \E domain \in AllDomains :
       /\ IF GraphExists(domain)
          THEN LET r == get_all_nodes(store, domain)
               IN /\ store' = r.state
                  /\ last' = [op |-> "get_all_nodes", domain |-> domain,
                              err |-> "none", value |-> r.value,
                              wrote |-> r.state # store]
          ELSE /\ store' = store
               /\ last' = [op |-> "get_all_nodes", domain |-> domain,
                           err |-> "FileNotFoundError", wrote |-> FALSE]
       /\ UNCHANGED <<now, base>>

\* Analyses handed to apply_analysis_to_state directly: entries with an
\* empty signal list beside entries with signals.
Analyses ==
    {[order |-> <<"A">>,
      concepts |-> [A |-> [a1 |-> [score |-> (50 * Scale) \div 100, signals |-> <<>>],
                           a2 |-> [score |-> (20 * Scale) \div 100,
                                   signals |-> <<"assertion">>]]]],
     [order |-> <<"B", "A">>,
      concepts |-> [B |-> [b1 |-> [score |-> (50 * Scale) \div 100, signals |-> <<>>]],
                    A |-> [a1 |-> [score |-> (50 * Scale) \div 100, signals |-> <<>>]]]],
     [order |-> <<"X", "A">>,
      concepts |-> [X |-> [a1 |-> [score |-> (20 * Scale) \div 100,
                                   signals |-> <<"assertion">>]],
                    A |-> [a2 |-> [score |-> (40 * Scale) \div 100,
                                   signals |-> <<"assertion", "assertion">>]]]]}

ApplyAnalysis ==
    /\ UNCHANGED <<inp, out, procs, profile>>
    /\ ops < MaxOps
    /\ \E analysis \in Analyses :
          LET state == apply_analysis_to_state(store, analysis, now)
          IN /\ store' = state
             /\ last' = [op |-> "apply_analysis_to_state", analysis |-> analysis,
                         wrote |-> state # store]
             /\ base' = Rescored(store, state, base)
    /\ ops' = ops + 1
    /\ UNCHANGED now

Next ==
    \/ Tick
    \/ InitDomain
    \/ UpdateNode
    \/ ApplyDecay
    \/ GetWeakNodes
    \/ GetAllNodes
    \/ RunAnalysis
    \/ ApplyAnalysis

Spec == Init /\ [][Next]_vars

\* ------------------------------------------- practice and decay over time
\* update_node on the nodes of graph "A", the clock and apply_decay, over a
\* longer stretch of time than the lifecycle specification.
Sleep ==
    /\ UNCHANGED <<inp, out, procs, profile>>
    /\ \E dt \in {TickShort, TickLong} :
          /\ now + dt <= MaxSleepTime
          /\ now' = now + dt
    /\ last' = [op |-> "tick"]
    /\ UNCHANGED <<store, base, ops>>

Practise ==
    /\ UNCHANGED <<inp, out, procs, profile>>
    /\ ops < MaxDecayOps
    /\ \E node_id \in GraphNodeIds("A"), score \in 0..3 :
          LET r == update_node(store, "A", node_id, score, now)
          IN /\ store' = r.state
             /\ last' = [op |-> "update_node", domain |-> "A", node_id |-> node_id,
                         score |-> score, err |-> r.err, node |-> r.node,
                         first |-> ~("A" \in DOMAIN store
                                     /\ node_id \in DOMAIN store["A"]),
                         wrote |-> r.state # store]
             /\ base' = Rescored(store, r.state, base)
    /\ ops' = ops + 1
    /\ UNCHANGED now

Decay ==
    /\ UNCHANGED <<inp, out, procs, profile>>
    /\ ops < MaxDecayOps
    /\ store' = apply_decay(store, now)
    /\ last' = [op |-> "apply_decay", again |-> last.op = "apply_decay",
                wrote |-> apply_decay(store, now) # store]
    /\ ops' = ops + 1
    /\ UNCHANGED <<now, base>>

NextDecay ==
    \/ Sleep
    \/ Practise
    \/ Decay

SpecDecay == Init /\ [][NextDecay]_vars

\* --------------------------------------------------- the priority ranking
\* update_node on the nodes of graph "A", get_node_priority and
\* get_weak_nodes.
TopNs == {0, 1, 2, 5}

GetNodePriority ==
    /\ UNCHANGED <<inp, out, procs, profile>>
    /\ ops < MaxDecayOps
    /\ ops' = ops + 1
    /\ \E domain \in AllDomains, node_id \in AllNodeIds :
          last' = IF GraphExists(domain)
                  THEN [op |-> "get_node_priority", domain |-> domain,
                        node_id |-> node_id, err |-> "none",
                        value |-> get_node_priority(store, domain, node_id)]
                  ELSE [op |-> "get_node_priority", domain |-> domain,
                        node_id |-> node_id, err |-> "FileNotFoundError"]
    /\ UNCHANGED <<store, now, base>>

GetWeakNodesTopN ==
    /\ UNCHANGED <<inp, out, procs, profile>>
    /\ ops < MaxDecayOps
    /\ ops' = ops + 1
    /\ \E domain \in AllDomains, top_n \in TopNs :
       /\ IF GraphExists(domain)
          THEN LET r == get_weak_nodes(store, domain, top_n)
               IN /\ store' = r.state
                  /\ last' = [op |-> "get_weak_nodes", domain |-> domain,
                              top_n |-> top_n, err |-> "none", value |-> r.value,
                              wrote |-> r.state # store]
          ELSE /\ store' = store
               /\ last' = [op |-> "get_weak_nodes", domain |-> domain,
                           top_n |-> top_n, err |-> "FileNotFoundError",
                           wrote |-> FALSE]
       /\ UNCHANGED <<now, base>>

NextPriority ==
    \/ Practise
    \/ GetNodePriority
    \/ GetWeakNodesTopN

SpecPriority == Init /\ [][NextPriority]_vars

\* ------------------------------------------------ the command-line boundary
\* The 'score' and 'graph update' commands with any integer score, beside
\* update_node called directly.
CliScores == {-1, 0, 1, 2, 3, 4}
ChallengeIds == {1, 2}
Topics == {"t"}

CmdScore ==
    /\ UNCHANGED <<inp, out, procs>>
    /\ ops < MaxOps
    /\ ops' = ops + 1
    /\ \E id \in ChallengeIds, score \in CliScores, topic \in Topics,
          difficulty \in Difficulties, hint \in BOOLEAN :
          IF ParseScore(score) # "none"
          THEN /\ profile' = profile
               /\ last' = [op |-> "cmd_score", score |-> score,
                           err |-> ParseScore(score), called |-> FALSE]
          ELSE LET r == update(profile, id, score, topic, difficulty, hint, now)
               IN /\ profile' = r.profile
                  /\ last' = [op |-> "cmd_score", score |-> score, err |-> r.err,
                              called |-> TRUE, xp_earned |-> r.xp_earned]
    /\ UNCHANGED <<store, now, base>>

CmdGraphUpdate ==
    /\ UNCHANGED <<inp, out, procs, profile>>
    /\ ops < MaxOps
    /\ ops' = ops + 1
    /\ \E domain \in AllDomains, node_id \in AllNodeIds, score \in CliScores :
          IF ParseScore(score) # "none"
          THEN /\ store' = store
               /\ base' = base
               /\ last' = [op |-> "cmd_graph_update", score |-> score,
                           err |-> ParseScore(score), called |-> FALSE]
          ELSE IF domain \notin list_domains
          THEN /\ store' = store
               /\ base' = base
               /\ last' = [op |-> "cmd_graph_update", score |-> score,
                           err |-> "SystemExit", called |-> FALSE]
          ELSE LET r == update_node(store, domain, node_id, score, now)
               IN /\ store' = r.state
                  /\ base' = Rescored(store, r.state, base)
                  /\ last' = [op |-> "cmd_graph_update", score |-> score,
                              err |-> r.err, called |-> TRUE, node |-> r.node]
    /\ UNCHANGED now

NextCli ==
    \/ CmdScore
    \/ CmdGraphUpdate
    \/ UpdateNode

SpecCli == Init /\ [][NextCli]_vars

\* --------------------------------------------- infer_domains on its own
InferDomains ==
    /\ out.op = "none"
    /\ \E text \in [1..Len(DOMAIN_SIGNALS) -> 0..MaxHits], max_domains \in 1..MaxDomains :
          out' = [op |-> "infer_domains", text |-> text, max_domains |-> max_domains,
                  value |-> infer_domains(text, max_domains)]
    /\ UNCHANGED <<storeVars, inp, procs, profile>>

NextOnboarding == InferDomains

SpecOnboarding == Init /\ [][NextOnboarding]_vars

\* ---------------------------------------------- calculate_xp on its own
CalculateXp ==
    /\ out.op = "none"
    /\ \E score \in 0..3, difficulty \in Difficulties, streak \in 0..MaxStreak,
          hint_used \in BOOLEAN :
          out' = [op |-> "calculate_xp", score |-> score, difficulty |-> difficulty,
                  streak |-> streak, hint_used |-> hint_used,
                  value |-> calculate_xp(score, difficulty, streak, hint_used)]
    /\ UNCHANGED <<storeVars, inp, procs, profile>>

NextXp == CalculateXp

SpecXp == Init /\ [][NextXp]_vars

\* ------------------------------------------- extract_messages on its own
\* A session file is built line by line from every shape of line, then
\* extract_messages reads it.
LineShapes ==
    {MsgLine("user", Text(0, 1, {"a1"})), MsgLine("assistant", Text(0, 0, {"a2"})),
     OtherLine, BlankLine, BadJsonLine, NonObjectLine, BadMessageLine}

WriteLine ==
    /\ out.op = "none"
    /\ Len(inp) < MaxLines
    /\ \E line \in LineShapes : inp' = Append(inp, line)
    /\ UNCHANGED <<storeVars, out, procs, profile>>

ExtractMessages ==
    /\ out.op = "none"
    /\ out' = [op |-> "extract_messages", value |-> extract_messages(inp)]
    /\ UNCHANGED <<storeVars, inp, procs, profile>>

NextExtract ==
    \/ WriteLine
    \/ ExtractMessages

SpecExtract == Init /\ [][NextExtract]_vars

\* ------------------------------------------- analyze_sessions on its own
\* One session is built turn by turn, then analyze_sessions scores it for
\* the domains "A" and "B".
TurnShapes ==
    {MsgLine("user", Text(0, 0, {})), MsgLine("user", Text(0, 1, {"a1"})),
     MsgLine("user", Text(1, 0, {"a1"})), MsgLine("assistant", Text(0, 0, {"a1"}))}

WriteTurn ==
    /\ out.op = "none"
    /\ Len(inp) < MaxTranscript
    /\ \E line \in TurnShapes : inp' = Append(inp, line)
    /\ UNCHANGED <<storeVars, out, procs, profile>>

AnalyzeSessions ==
    /\ out.op = "none"
    /\ out' = [op |-> "analyze_sessions",
               value |-> analyze_sessions(<<inp>>, <<"A", "B">>, 50)]
    /\ UNCHANGED <<storeVars, inp, procs, profile>>

NextAnalyze ==
    \/ WriteTurn
    \/ AnalyzeSessions

SpecAnalyze == Init /\ [][NextAnalyze]_vars

\* ------------------------------------ analyze_sessions over several domains
\* One session whose turns mention concepts of graph "A", of graph "B" or
\* of both is scored for different lists of domains.
MixedTurns ==
    {MsgLine("user", Text(0, 1, {"a1"})), MsgLine("user", Text(1, 0, {"b1"})),
     MsgLine("user", Text(0, 0, {"a1", "b1"})), MsgLine("assistant", Text(0, 0, {"b1"})),
     MsgLine("assistant", Text(0, 0, {"a2"}))}

AnalyzedDomains == {<<"A", "B">>, <<"B", "A">>, <<"B">>, <<"X", "B">>}

WriteMixedTurn ==
    /\ out.op = "none"
    /\ Len(inp) < MaxMixed
    /\ \E line \in MixedTurns : inp' = Append(inp, line)
    /\ UNCHANGED <<storeVars, out, procs, profile>>

AnalyzeDomains ==
    /\ out.op = "none"
    /\ \E domains \in AnalyzedDomains :
          out' = [op |-> "analyze_sessions", domains |-> domains,
                  value |-> analyze_sessions(<<inp>>, domains, 50)]
    /\ UNCHANGED <<storeVars, inp, procs, profile>>

NextDomains ==
    \/ WriteMixedTurn
    \/ AnalyzeDomains

SpecDomains == Init /\ [][NextDomains]_vars

\* ------------------------------------- classify_message_intent on its own
\* A message is classified for every number of matching patterns of the
\* two lists.
ClassifyMessageIntent ==
    /\ out.op = "none"
    /\ \E q \in 0..Cardinality(QUESTION_MARKERS), c \in 0..Cardinality(CONFIDENCE_MARKERS) :
          out' = [op |-> "classify_message_intent", q |-> q, c |-> c,
                  value |-> classify_message_intent(Text(q, c, {}))]
    /\ UNCHANGED <<storeVars, inp, procs, profile>>

NextIntent == ClassifyMessageIntent

SpecIntent == Init /\ [][NextIntent]_vars

\* ------------------------------------------- run_analysis over many sessions
\* Session files are written to the projects directory one by one, each
\* with its modification time and one user turn about "a1"; then
\* run_analysis finds them and analyses at most max_sessions of them.
SessionFiles ==
    {[mtime |-> m, lines |-> Dialogue(1, text)] :
        m \in 1..MaxSessions, text \in {Text(0, 1, {"a1"}), Text(1, 0, {"a1"})}}

WriteSession ==
    /\ out.op = "none"
    /\ Len(inp) < MaxSessions
    /\ \E f \in SessionFiles : inp' = Append(inp, f)
    /\ UNCHANGED <<storeVars, out, procs, profile>>

RunAnalysisBounded ==
    /\ out.op = "none"
    /\ \E max_sessions \in 0..(MaxSessions + 1), domains \in {<<"A">>, <<>>},
          dry_run \in BOOLEAN :
          LET sessions == find_project_sessions(inp)
              r == run_analysis(store, [i \in 1..Len(sessions) |-> sessions[i].lines],
                                domains, max_sessions, dry_run, now)
          IN /\ store' = r.state
             /\ base' = Rescored(store, r.state, base)
             /\ out' = [op |-> "run_analysis", sessions |-> sessions,
                        max_sessions |-> max_sessions, domains |-> domains,
                        status |-> r.status,
                        sessions_analyzed |-> r.sessions_analyzed,
                        analysis |-> IF r.status = "success" THEN r.analysis
                                     ELSE [order |-> <<>>, concepts |-> <<>>]]
    /\ UNCHANGED <<now, last, ops, inp, procs, profile>>

NextBounded ==
    \/ WriteSession
    \/ RunAnalysisBounded

SpecBounded == Init /\ [][NextBounded]_vars

\* --------------------------------- analyze_sessions on reordered sessions
\* A history is written block by block, a block being a user turn with
\* the assistant turn that follows it, if any.  The history is cut into
\* two session files and analysed, then analysed again with the two
\* sessions exchanged or with two blocks of one session exchanged.
TurnBlocks ==
    {<<MsgLine("user", Text(0, 1, {"a1"}))>>,
     <<MsgLine("user", Text(1, 0, {"a1"}))>>,
     <<MsgLine("user", Text(0, 0, {"a1"}))>>,
     <<MsgLine("user", Text(0, 0, {"a3"})), MsgLine("assistant", Text(0, 0, {"a1"}))>>}

RECURSIVE Flatten(_)
Flatten(blocks) ==
    IF blocks = <<>> THEN <<>> ELSE Head(blocks) \o Flatten(Tail(blocks))

SwapBlocks(blocks, i, j) ==
    [x \in 1..Len(blocks) |->
        IF x = i THEN blocks[j] ELSE IF x = j THEN blocks[i] ELSE blocks[x]]

WriteBlock ==
    /\ out.op = "none"
    /\ Len(inp) < MaxBlocks
    /\ \E b \in TurnBlocks : inp' = Append(inp, b)
    /\ UNCHANGED <<storeVars, out, procs, profile>>

AnalyzeReordered ==
    /\ out.op = "none"
    /\ \E cut \in 0..Len(inp), i \in 0..Len(inp), j \in 0..Len(inp) :
          /\ i <= j
          /\ (i = 0) = (j = 0)
          /\ (i <= cut) = (j <= cut)
          /\ LET one == SubSeq(inp, 1, cut)
                 two == SubSeq(inp, cut + 1, Len(inp))
                 sessions == <<Flatten(one), Flatten(two)>>
                 reordered ==
                     IF i = 0 THEN <<Flatten(two), Flatten(one)>>
                     ELSE LET swapped == SwapBlocks(inp, i, j)
                          IN <<Flatten(SubSeq(swapped, 1, cut)),
                               Flatten(SubSeq(swapped, cut + 1, Len(inp)))>>
                 first == analyze_sessions(sessions, <<"A">>, 50)
                 second == analyze_sessions(reordered, <<"A">>, 50)
             IN out' = [op |-> "analyze_sessions", sessions |-> sessions,
                        reordered |-> reordered,
                        first |-> first, first_scores |-> FloatScores(first),
                        second |-> second, second_scores |-> FloatScores(second)]
    /\ UNCHANGED <<storeVars, inp, procs, profile>>

NextOrder ==
    \/ WriteBlock
    \/ AnalyzeReordered

SpecOrder == Init /\ [][NextOrder]_vars

\* ------------------------------------------- two processes on one store
\* Each process runs update_node once.  Its steps are the reads and writes
\* of knowledge_state.json: load_state, then for a domain with no entry
\* init_domain (its own load_state and save_state) and a second load_state,
\* then save_state of the state updated in memory.  raced records that the
\* process started while the other one was between its first read and its
\* last write.
Procs == {1, 2}

Running(p) == procs[p].pc \notin {"idle", "done"}

InitConc ==
    /\ store \in {load_state_default, init_domain(load_state_default, "A")}
    /\ now = 0
    /\ last = [op |-> "none"]
    /\ base = <<>>
    /\ ops = 0
    /\ inp = <<>>
    /\ out = [op |-> "none"]
    /\ procs = [p \in Procs |->
                  [pc |-> "idle", domain |-> "A", node_id |-> "a1", score |-> 0,
                   state |-> load_state_default, raced |-> FALSE]]
    /\ profile = DefaultProfile

LoadState ==
    /\ \E p \in Procs, domain \in list_domains, score \in {1, 3} :
         \E node_id \in GraphNodeIds(domain) :
          /\ procs[p].pc = "idle"
          /\ procs' = [procs EXCEPT ![p] =
                          [pc |-> IF domain \in DOMAIN store THEN "save" ELSE "init_load",
                           domain |-> domain, node_id |-> node_id, score |-> score,
                           state |-> store,
                           raced |-> \E q \in Procs \ {p} : Running(q)]]
    /\ UNCHANGED <<storeVars, funVars, profile>>

InitDomainLoad ==
    /\ \E p \in Procs :
          /\ procs[p].pc = "init_load"
          /\ procs' = [procs EXCEPT ![p].pc = "init_save", ![p].state = store]
    /\ UNCHANGED <<storeVars, funVars, profile>>

InitDomainSave ==
    /\ \E p \in Procs :
          /\ procs[p].pc = "init_save"
          /\ store' = init_domain(procs[p].state, procs[p].domain)
          /\ procs' = [procs EXCEPT ![p].pc = "reload"]
    /\ UNCHANGED <<now, last, base, ops, funVars, profile>>

ReloadState ==
    /\ \E p \in Procs :
          /\ procs[p].pc = "reload"
          /\ procs' = [procs EXCEPT ![p].pc = "save", ![p].state = store]
    /\ UNCHANGED <<storeVars, funVars, profile>>

SaveState ==
    /\ \E p \in Procs :
          /\ procs[p].pc = "save"
          /\ store' = update_node(procs[p].state, procs[p].domain, procs[p].node_id,
                                  procs[p].score, now).state
          /\ procs' = [procs EXCEPT ![p].pc = "done"]
    /\ UNCHANGED <<now, last, base, ops, funVars, profile>>

NextConc ==
    \/ LoadState
    \/ InitDomainLoad
    \/ InitDomainSave
    \/ ReloadState
    \/ SaveState

SpecConc == InitConc /\ [][NextConc]_vars

\* ---------------------------- get_weak_nodes beside a writing process
\* One process runs get_weak_nodes step by step: load_state, for a domain
\* with no entry init_domain (its load_state and its save_state) and a
\* second load_state, then for each node of the graph get_node_priority,
\* which calls load_state again, and the tuple built from that priority and
\* the node_state of the state loaded at the start; at the end the sort
\* and the slice.  Between any two steps another process may run
\* update_node or apply_decay, and time may pass.
WeakTopNs == {2, 5}

OtherUpdateNode ==
    /\ ops < MaxWrites
    /\ \E domain \in list_domains, score \in {1, 3} :
         \E node_id \in GraphNodeIds(domain) :
          LET r == update_node(store, domain, node_id, score, now)
          IN /\ store' = r.state
             /\ last' = [op |-> "update_node", domain |-> domain, node_id |-> node_id,
                         score |-> score, err |-> r.err, node |-> r.node,
                         first |-> ~(domain \in DOMAIN store
                                     /\ node_id \in DOMAIN store[domain]),
                         wrote |-> r.state # store]
             /\ base' = Rescored(store, r.state, base)
    /\ ops' = ops + 1
    /\ UNCHANGED <<now, inp, out, procs, profile>>

OtherApplyDecay ==
    /\ ops < MaxWrites
    /\ store' = apply_decay(store, now)
    /\ last' = [op |-> "apply_decay", again |-> last.op = "apply_decay",
                wrote |-> apply_decay(store, now) # store]
    /\ ops' = ops + 1
    /\ UNCHANGED <<now, base, inp, out, procs, profile>>

TimePasses ==
    /\ now + TickLong <= MaxTime
    /\ now' = now + TickLong
    /\ UNCHANGED <<store, last, base, ops, inp, out, procs, profile>>

GwnLoadState ==
    /\ procs = <<>>
    /\ \E domain \in list_domains, top_n \in WeakTopNs :
          procs' = [pc |-> IF domain \in DOMAIN store THEN "loop" ELSE "init_load",
                    domain |-> domain, top_n |-> top_n, state |-> store,
                    i |-> 1, results |-> <<>>]
    /\ UNCHANGED <<storeVars, funVars, profile>>

GwnInitDomainLoad ==
    /\ procs # <<>>
    /\ procs.pc = "init_load"
    /\ procs' = [procs EXCEPT !.pc = "init_save", !.state = store]
    /\ UNCHANGED <<storeVars, funVars, profile>>

GwnInitDomainSave ==
    /\ procs # <<>>
    /\ procs.pc = "init_save"
    /\ store' = init_domain(procs.state, procs.domain)
    /\ base' = Rescored(store, store', base)
    /\ procs' = [procs EXCEPT !.pc = "reload"]
    /\ UNCHANGED <<now, last, ops, funVars, profile>>

GwnReloadState ==
    /\ procs # <<>>
    /\ procs.pc = "reload"
    /\ procs' = [procs EXCEPT !.pc = "loop", !.state = store]
    /\ UNCHANGED <<storeVars, funVars, profile>>

GwnNodePriority ==
    /\ procs # <<>>
    /\ procs.pc = "loop"
    /\ procs.i <= Len(load_graph(procs.domain))
    /\ LET node == load_graph(procs.domain)[procs.i]
           state == procs.state
       IN procs' = [procs EXCEPT
                       !.i = procs.i + 1,
                       !.results = Append(procs.results,
                           [node_id |-> node.id,
                            priority |-> get_node_priority(store, procs.domain, node.id),
                            node |-> node,
                            node_state |-> IF node.id \in DOMAIN state[procs.domain]
                                           THEN state[procs.domain][node.id]
                                           ELSE ZeroRecord])]
    /\ UNCHANGED <<storeVars, funVars, profile>>

GwnReturn ==
    /\ procs # <<>>
    /\ procs.pc = "loop"
    /\ procs.i > Len(load_graph(procs.domain))
    /\ LET sorted == SortByPriority(procs.results)
       IN out' = [op |-> "get_weak_nodes", domain |-> procs.domain,
                  top_n |-> procs.top_n,
                  value |-> SubSeq(sorted, 1, Min(procs.top_n, Len(sorted)))]
    /\ procs' = [procs EXCEPT !.pc = "done"]
    /\ UNCHANGED <<storeVars, inp, profile>>

NextWeak ==
    \/ GwnLoadState
    \/ GwnInitDomainLoad
    \/ GwnInitDomainSave
    \/ GwnReloadState
    \/ GwnNodePriority
    \/ GwnReturn
    \/ OtherUpdateNode
    \/ OtherApplyDecay
    \/ TimePasses

SpecWeak == Init /\ [][NextWeak]_vars

\* ------------------------------------------------------------------ claims
Records == {<<d, n>> \in AllDomains \X AllNodeIds :
               d \in DOMAIN store /\ n \in DOMAIN store[d]}

\* The status bands as the specification states them.
StatusOfBand(mastery) ==
    IF 100 * mastery >= 85 * Scale THEN "mastered"
    ELSE IF 100 * mastery >= 70 * Scale THEN "strong"
    ELSE IF 100 * mastery >= 40 * Scale THEN "developing"
    ELSE "weak"

\* C1 (as stated): a second apply_decay() at the same clock value, with no
\* update_node or merge in between, changes no record.
C1_DecayIdempotentAtFixedInstant ==
    (last.op = "apply_decay" /\ last.again) => ~last.wrote

\* C2 (as stated): after apply_analysis_to_state every node with at least
\* one signal, in a domain whose graph exists, has mastery = its analysis
\* score, attempts = its signal count, last_seen = the merge time and the
\* status of that score, whatever domains the store held before.
C2_MergeAppliesEveryTouchedNode ==
    (last.op = "run_analysis" /\ last.applied)
    => \A d \in DOMAIN last.analysis.concepts :
          \A n \in DOMAIN last.analysis.concepts[d] :
             (GraphExists(d) /\ Len(last.analysis.concepts[d][n].signals) > 0)
             => /\ <<d, n>> \in Records
                /\ store[d][n].mastery = last.analysis.concepts[d][n].score
                /\ store[d][n].attempts = Len(last.analysis.concepts[d][n].signals)
                /\ store[d][n].last_seen = now
                /\ store[d][n].status = StatusOfBand(last.analysis.concepts[d][n].score)

\* C3: every persisted record carries the status of the band its mastery
\* lies in: mastered >= 0.85, strong >= 0.70, developing >= 0.40, else weak.
C3_StatusConsistentWithMastery ==
    \A k \in Records : store[k[1]][k[2]].status = StatusOfBand(store[k[1]][k[2]].mastery)

\* C3 witness: an update_node has just lifted a record merged by the
\* analyzer into the mastered band.
C3_Witness ==
    /\ last.op = "update_node"
    /\ \E k \in Records : /\ store[k[1]][k[2]].status = "mastered"
                          /\ store[k[1]][k[2]].attempts > 1

\* The observation the specification gives for a score in {0,1,2,3}, in
\* units of 1/10.
ObservationTenths(score) ==
    CASE score = 0 -> 0 [] score = 1 -> 3 [] score = 2 -> 7 [] score = 3 -> 10

\* C4 (as stated): a first-ever update_node with a score in {0,1,2,3} never
\* ends in an error and returns a record with attempts = 1.
C4_FirstUpdateAlwaysSucceeds ==
    (last.op = "update_node" /\ last.first /\ last.score \in 0..3)
    => /\ last.err = "none"
       /\ last.node.attempts = 1

\* C4 (amended): a first-ever update_node with a score in {0,1,2,3} on a
\* domain that has a concept graph succeeds: the persisted record is the
\* returned one, with attempts = 1, last_seen = now and mastery
\* 0.3 * obs(score); on a domain with neither a store entry nor a concept
\* graph it ends in FileNotFoundError and writes nothing.
C4_FirstUpdateSucceedsWithGraph ==
    (last.op = "update_node" /\ last.first /\ last.score \in 0..3)
    => IF GraphExists(last.domain)
       THEN /\ last.err = "none"
            /\ <<last.domain, last.node_id>> \in Records
            /\ store[last.domain][last.node_id] = last.node
            /\ last.node.attempts = 1
            /\ last.node.last_seen = now
            /\ 100 * last.node.mastery = 3 * ObservationTenths(last.score) * Scale
            /\ last.node.status = "weak"
       ELSE /\ last.err = "FileNotFoundError"
            /\ ~last.wrote

\* C4 witness: a first-ever update on a domain that had no store entry.
C4_Witness ==
    /\ last.op = "update_node" /\ last.first /\ last.score = 3
    /\ last.err = "none"
    /\ last.domain = "B" /\ last.node_id = "a1"
    /\ DOMAIN store = {"B"}

\* C5 (as stated): after an apply_decay() d whole days after the last
\* scoring update, which left mastery m, the mastery is
\* max(0, m - max(0, d - 3) * 0.02), however many apply_decay() calls there
\* were in between.
C5_DecayLinearInElapsedTime ==
    last.op = "apply_decay"
    => \A k \in Records :
          store[k[1]][k[2]].last_seen # NULL
          => 100 * store[k[1]][k[2]].mastery =
                Max(0, 100 * base[k]
                       - Max(0, days_since(now, store[k[1]][k[2]].last_seen) - 3)
                         * 2 * Scale)

\* The messages of the well-formed user and assistant entries of a file, in
\* file order.
RECURSIVE WellFormedMessages(_)
WellFormedMessages(lines) ==
    IF lines = <<>> THEN <<>>
    ELSE LET rest == WellFormedMessages(Tail(lines))
         IN IF Head(lines).kind = "msg"
            THEN <<[role |-> Head(lines).role, text |-> Head(lines).text]>> \o rest
            ELSE rest

\* C6 (as stated): extract_messages returns exactly the messages of the
\* well-formed entries, in file order, whatever malformed entries surround
\* them.
C6_MalformedEntriesSkippedOneByOne ==
    out.op = "extract_messages" => out.value = WellFormedMessages(inp)

\* C7 (as stated): a concept mentioned only by the assistant, however many
\* times, ends with a score strictly below the 0.20 of one user assertion.
C7_AssistantOnlyBelowOneAssertion ==
    (/\ out.op = "analyze_sessions"
     /\ "a1" \in DOMAIN out.value.concepts["A"]
     /\ \A i \in 1..Len(out.value.concepts["A"]["a1"].signals) :
           out.value.concepts["A"]["a1"].signals[i] = "claude_explained")
    => 100 * out.value.concepts["A"]["a1"].score < 20 * Scale

\* C8 (as stated): get_weak_nodes leaves the persisted store exactly as it
\* found it, also when the domain has no record yet.
C8_GetWeakNodesReadOnly ==
    last.op = "get_weak_nodes" => ~last.wrote

RECURSIVE SumAttempts(_)
SumAttempts(keys) ==
    IF keys = {} THEN 0
    ELSE LET k == CHOOSE x \in keys : TRUE
         IN store[k[1]][k[2]].attempts + SumAttempts(keys \ {k})

BothDone == \A p \in Procs : procs[p].pc = "done"

\* C9: when both processes have run their update_node, an update is missing
\* from the persisted state (fewer than two attempts recorded in all) only
\* if one process started while the other was between its first read and
\* its last write; every serial execution keeps both updates.
C9_LostUpdateOnlyWhenInterleaved ==
    (DOMAIN procs = Procs /\ BothDone /\ SumAttempts(Records) < 2)
    => \E p \in Procs : procs[p].raced

\* C9 witness: two interleaved updates of two different nodes have both
\* finished and the persisted state holds the last writer's update only.
C9_Witness ==
    /\ DOMAIN procs = Procs /\ BothDone
    /\ <<procs[1].domain, procs[1].node_id>> # <<procs[2].domain, procs[2].node_id>>
    /\ \E p \in Procs : procs[p].raced
    /\ SumAttempts(Records) = 1
    /\ \E p \in Procs :
          /\ store[procs[p].domain][procs[p].node_id].attempts = 1
          /\ \A q \in Procs \ {p} :
                procs[q].domain \in DOMAIN store
                => store[procs[q].domain][procs[q].node_id].attempts = 0

\* C10: every persisted record has 0.0 <= mastery <= 1.0 and attempts >= 0.
C10_MasteryInRange ==
    \A k \in Records : /\ store[k[1]][k[2]].mastery >= 0
                       /\ store[k[1]][k[2]].mastery <= Scale
                       /\ store[k[1]][k[2]].attempts >= 0

\* C10 witness: apply_decay has just run over a record that was scored to
\* mastery 0.0 more than the grace period ago, where the floor at 0.0 acts.
C10_Witness ==
    /\ last.op = "apply_decay"
    /\ \E k \in Records : /\ store[k[1]][k[2]].last_seen # NULL
                          /\ days_since(now, store[k[1]][k[2]].last_seen) > DECAY_GRACE_DAYS
                          /\ store[k[1]][k[2]].mastery = 0

\* The mastery of a record before an operation, 0.0 when there is none yet.
PriorMastery(domain, node_id) ==
    IF domain \in DOMAIN store /\ node_id \in DOMAIN store[domain]
    THEN store[domain][node_id].mastery
    ELSE 0

\* C11: every update_node with a score s in {0,1,2,3} on prior mastery m
\* leaves mastery clamp(0.3 * obs(s) + 0.7 * m, 0, 1); a score of 0 never
\* raises mastery, a score of 3 never lowers it, and the move is at most 0.3.
C11_BoundedEmaRule ==
    [][(last'.op = "update_node" /\ last'.err = "none" /\ last'.score \in 0..3)
       => LET m == PriorMastery(last'.domain, last'.node_id)
              new == store'[last'.domain][last'.node_id].mastery
          IN /\ 100 * new = Max(0, Min(100 * Scale,
                                       3 * ObservationTenths(last'.score) * Scale + 70 * m))
             /\ last'.node.mastery = new
             /\ (last'.score = 0 => new <= m)
             /\ (last'.score = 3 => new >= m)
             /\ 10 * (new - m) <= 3 * Scale
             /\ 10 * (m - new) <= 3 * Scale]_vars

\* C11 witness: a score of 0 has just lowered a record that earlier updates
\* and a decay had left at a positive mastery.
C11_Witness ==
    /\ last.op = "update_node" /\ last.err = "none"
    /\ last.score = 0
    /\ last.node.attempts = 2
    /\ last.node.mastery > 0
    /\ now > TickLong

\* C12: one apply_decay() lowers the mastery of exactly the records whose
\* last_seen is non-null and more than 3 whole days past, by
\* (elapsed_days - 3) * 0.02 with a floor of 0.0, and recomputes their
\* status; every other record, and every attempts and last_seen, stays.
C12_SingleDecayStep ==
    [][last'.op = "apply_decay"
       => /\ DOMAIN store' = DOMAIN store
          /\ \A d \in DOMAIN store : DOMAIN store'[d] = DOMAIN store[d]
          /\ \A k \in Records :
                LET old == store[k[1]][k[2]]
                    new == store'[k[1]][k[2]]
                IN IF old.last_seen # NULL /\ days_since(now, old.last_seen) > 3
                   THEN /\ 100 * new.mastery =
                              Max(0, 100 * old.mastery
                                     - (days_since(now, old.last_seen) - 3) * 2 * Scale)
                        /\ new.status = StatusOfBand(new.mastery)
                        /\ new.attempts = old.attempts
                        /\ new.last_seen = old.last_seen
                   ELSE new = old]_vars

\* C12 witness: apply_decay has just run over a never-updated record, a
\* record updated exactly 3 whole days ago and a record updated longer ago
\* whose mastery it lowered without reaching the floor.
C12_Witness ==
    /\ last.op = "apply_decay" /\ last.wrote /\ ~last.again
    /\ \E k \in Records : store[k[1]][k[2]].last_seen = NULL
    /\ \E k \in Records : /\ store[k[1]][k[2]].last_seen # NULL
                          /\ days_since(now, store[k[1]][k[2]].last_seen) = 3
                          /\ store[k[1]][k[2]].mastery = base[k]
                          /\ base[k] > 0
    /\ \E k \in Records : /\ store[k[1]][k[2]].last_seen # NULL
                          /\ days_since(now, store[k[1]][k[2]].last_seen) > 3
                          /\ store[k[1]][k[2]].mastery > 0
                          /\ store[k[1]][k[2]].mastery < base[k]

\* A record the analysis touches: its node is analysed with at least one
\* signal.
Touched(analysis, k) ==
    /\ k[1] \in DOMAIN analysis.concepts
    /\ k[2] \in DOMAIN analysis.concepts[k[1]]
    /\ Len(analysis.concepts[k[1]][k[2]].signals) > 0

\* C13: a merge leaves the record of every node that is absent from the
\* analysis, or analysed with an empty signal list, exactly as it was.
C13_MergeLeavesUntouchedAlone ==
    [][last'.op \in {"apply_analysis_to_state", "run_analysis"}
       => \A k \in Records :
             ~Touched(last'.analysis, k)
             => /\ k[1] \in DOMAIN store'
                /\ k[2] \in DOMAIN store'[k[1]]
                /\ store'[k[1]][k[2]] = store[k[1]][k[2]]]_vars

\* C13 witness: a merge has just written one node and passed over a node
\* analysed with an empty signal list, whose record an earlier update_node
\* had left at a positive mastery.
C13_Witness ==
    /\ last.op = "apply_analysis_to_state" /\ last.wrote
    /\ "A" \in DOMAIN last.analysis.concepts
    /\ "a1" \in DOMAIN last.analysis.concepts["A"]
    /\ last.analysis.concepts["A"]["a1"].signals = <<>>
    /\ <<"A", "a1">> \in Records
    /\ store["A"]["a1"].attempts = 1
    /\ store["A"]["a1"].mastery > 0
    /\ store["A"]["a1"].mastery # last.analysis.concepts["A"]["a1"].score
    /\ store["A"]["a2"].last_seen = now
    /\ store["A"]["a3"] = ZeroRecord

\* C14: run_analysis with dry_run = True leaves the persisted store as it
\* was and returns the analysis the same call returns with dry_run = False.
C14_DryRunDoesNotMutate ==
    (last.op = "run_analysis" /\ ~last.applied)
    => /\ ~last.wrote
       /\ last.analysis =
             run_analysis(store, last.sessions, last.analysis.order, 50, FALSE, now).analysis

\* C14 witness: a dry run has just returned an analysis that the same call
\* without dry_run would have written to the store.
C14_Witness ==
    /\ last.op = "run_analysis" /\ ~last.applied
    /\ ConceptsDetected(last.analysis) > 0
    /\ apply_analysis_to_state(store, last.analysis, now) # store
    /\ store # load_state_default

\* C15: every score analyze_sessions returns lies in [0.0, 0.8].
C15_AnalyzerScoresCapped ==
    out.op = "analyze_sessions"
    => \A d \in DOMAIN out.value.concepts :
          \A n \in DOMAIN out.value.concepts[d] :
             /\ 100 * out.value.concepts[d][n].score >= 0
             /\ 100 * out.value.concepts[d][n].score <= 80 * Scale

\* C15 witness: five user assertions on one concept, 1.0 before the clamp,
\* have been scored 0.8.
C15_Witness ==
    /\ out.op = "analyze_sessions"
    /\ "a1" \in DOMAIN out.value.concepts["A"]
    /\ Len(out.value.concepts["A"]["a1"].signals) = 5
    /\ \A i \in 1..5 : out.value.concepts["A"]["a1"].signals[i] = "assertion"
    /\ 100 * out.value.concepts["A"]["a1"].score = 80 * Scale

\* The node ids the texts of a transcript match.
Mentioned(lines) ==
    {n \in AllNodeIds : \E i \in 1..Len(lines) : n \in lines[i].text.mentions}

\* C16: the result of analyze_sessions for domain "B" holds concepts of
\* graph "B" that the texts match and nothing else, is empty when the texts
\* match concepts of graph "A" only, and is the result of the run over "B"
\* alone, whichever other domains are analysed in the same run.
C16_CrossDomainIsolation ==
    (out.op = "analyze_sessions" /\ "B" \in Range(out.domains))
    => /\ DOMAIN out.value.concepts["B"] \subseteq GraphNodeIds("B") \cap Mentioned(inp)
       /\ (Mentioned(inp) \cap GraphNodeIds("B") = {}
           => out.value.concepts["B"] = NoConcepts)
       /\ out.value.concepts["B"] = analyze_sessions(<<inp>>, <<"B">>, 50).concepts["B"]

\* C16 witness: a session that matches concepts of graph "A" only has been
\* scored for "A" and "B" together, with signals for "A" and none for "B".
C16_Witness ==
    /\ out.op = "analyze_sessions" /\ out.domains = <<"A", "B">>
    /\ Len(inp) = MaxMixed
    /\ Mentioned(inp) = {"a1", "a2"}
    /\ DOMAIN out.value.concepts["A"] = {"a1", "a2"}
    /\ out.value.concepts["B"] = NoConcepts

\* C17: init_domain(domain) leaves every record the store already holds
\* unchanged, in the domain and in every other domain, and adds the
\* zero-state record for the graph nodes of the domain that had none, and
\* nothing else.
C17_ReinitPreservesRecords ==
    [][(last'.op = "init_domain" /\ last'.err = "none")
       => /\ \A k \in Records :
                /\ k \in Records'
                /\ store'[k[1]][k[2]] = store[k[1]][k[2]]
          /\ \A k \in Records' \ Records :
                /\ k[1] = last'.domain
                /\ k[2] \in GraphNodeIds(last'.domain)
                /\ store'[k[1]][k[2]] = ZeroRecord
          /\ \A n \in GraphNodeIds(last'.domain) : <<last'.domain, n>> \in Records']_vars

\* C17 witness: init_domain has just run on a domain whose store entry
\* holds a record that an update_node had moved off the zero-state.
C17_Witness ==
    /\ last.op = "init_domain" /\ last.err = "none" /\ last.domain = "A"
    /\ <<"A", "a1">> \in Records
    /\ store["A"]["a1"].attempts = 1
    /\ store["A"]["a1"].mastery > 0
    /\ store["A"]["a2"] = ZeroRecord

\* C18: the set of (domain, node_id) keys of the persisted store only
\* grows: every key present before an operation is present after it.
C18_RecordsNeverDeleted ==
    [][Records \subseteq Records']_vars

\* C18 witness: a second operation has run on a store that held, beside
\* the nodes of the graph, a record of a node the graph does not declare.
C18_Witness ==
    /\ ops = MaxOps
    /\ last.op \in {"init_domain", "apply_decay", "get_weak_nodes", "get_all_nodes",
                     "apply_analysis_to_state", "run_analysis"}
    /\ <<"A", "b1">> \in Records
    /\ GraphNodeIds("A") \subseteq DOMAIN store["A"]

\* The nodes the concept graphs declare, as (domain, node_id) pairs.
GraphNodes == {k \in AllDomains \X AllNodeIds :
                  GraphExists(k[1]) /\ k[2] \in GraphNodeIds(k[1])}

\* The importance weight and the position a graph declares for a node.
GraphIndex(domain, node_id) ==
    CHOOSE i \in 1..Len(GRAPHS_DIR[domain]) : GRAPHS_DIR[domain][i].id = node_id

WeightOf(domain, node_id) == GRAPHS_DIR[domain][GraphIndex(domain, node_id)].reuse_weight

\* C19: for a graph node get_node_priority returns weight * (1 - mastery),
\* the full weight when the node has no record; against any other graph
\* node of the same weight it is not higher when its mastery is not lower,
\* and against any of the same mastery not lower when its weight is not
\* lower.
C19_PriorityIsWeightTimesGap ==
    (/\ last.op = "get_node_priority" /\ last.err = "none"
     /\ <<last.domain, last.node_id>> \in GraphNodes)
    => /\ last.value = WeightOf(last.domain, last.node_id)
                        * (Scale - PriorMastery(last.domain, last.node_id))
       /\ (<<last.domain, last.node_id>> \notin Records
           => last.value = WeightOf(last.domain, last.node_id) * Scale)
       /\ \A k \in GraphNodes :
             /\ (/\ WeightOf(k[1], k[2]) = WeightOf(last.domain, last.node_id)
                 /\ PriorMastery(k[1], k[2]) <= PriorMastery(last.domain, last.node_id))
                => last.value <= get_node_priority(store, k[1], k[2])
             /\ (/\ PriorMastery(k[1], k[2]) = PriorMastery(last.domain, last.node_id)
                 /\ WeightOf(k[1], k[2]) <= WeightOf(last.domain, last.node_id))
                => last.value >= get_node_priority(store, k[1], k[2])

\* C19 witness: the priority of a node has been read while another node of
\* the same weight held a lower, positive mastery.
C19_Witness ==
    /\ last.op = "get_node_priority" /\ last.err = "none"
    /\ last.domain = "A" /\ last.node_id = "a2"
    /\ <<"A", "a2">> \in Records
    /\ store["A"]["a3"].mastery > 0
    /\ store["A"]["a2"].mastery > store["A"]["a3"].mastery
    /\ last.value < get_node_priority(store, "A", "a3")

\* x comes before y in the ranking of a domain: higher priority, or equal
\* priority and declared earlier in the graph.
RanksBefore(domain, x, y) ==
    LET px == WeightOf(domain, x) * (Scale - PriorMastery(domain, x))
        py == WeightOf(domain, y) * (Scale - PriorMastery(domain, y))
    IN \/ px > py
       \/ px = py /\ GraphIndex(domain, x) < GraphIndex(domain, y)

\* C20: get_weak_nodes(domain, n) returns min(n, number of graph nodes)
\* entries, each a different node of the graph with its priority and its
\* record, in ranking order (priority descending, equal priorities in graph
\* order), and every node left out ranks after every node returned.
C20_TopNOfStableRanking ==
    (last.op = "get_weak_nodes" /\ last.err = "none")
    => LET value == last.value
           domain == last.domain
       IN /\ Len(value) = Min(last.top_n, Len(GRAPHS_DIR[domain]))
          /\ \A i \in 1..Len(value) :
                /\ value[i].node_id \in GraphNodeIds(domain)
                /\ value[i].priority =
                      WeightOf(domain, value[i].node_id)
                      * (Scale - PriorMastery(domain, value[i].node_id))
                /\ value[i].node_state = store[domain][value[i].node_id]
          /\ \A i, j \in 1..Len(value) :
                i < j => RanksBefore(domain, value[i].node_id, value[j].node_id)
          /\ \A n \in GraphNodeIds(domain) \ {value[i].node_id : i \in 1..Len(value)} :
                \A i \in 1..Len(value) : RanksBefore(domain, value[i].node_id, n)

\* C20 witness: the full ranking of a domain has been returned in an order
\* that differs from the graph's, with two nodes of equal priority in it.
C20_Witness ==
    /\ last.op = "get_weak_nodes" /\ last.err = "none"
    /\ last.domain = "A" /\ last.top_n = 5
    /\ Len(last.value) = 3
    /\ last.value[1].node_id = "a2"
    /\ last.value[2].node_id = "a3"
    /\ last.value[1].priority = last.value[2].priority
    /\ last.value[3].node_id = "a1"

\* C23: calculate_xp is the rounding of base * difficulty * streak
\* multiplier * hint penalty with the streak multiplier
\* min(1 + 0.15 * streak, 2.5): it returns for every streak >= 10 the XP of
\* streak 10, and 0 XP for a score of 0.
C23_StreakMultiplierCapped ==
    out.op = "calculate_xp"
    => LET exact == XP_TABLE[out.score] * DIFF_MULT[out.difficulty]
                    * (IF 20 + 3 * out.streak <= 50 THEN 20 + 3 * out.streak ELSE 50)
                    * (IF out.hint_used THEN 3 ELSE 4)
       IN /\ 160 * out.value - exact <= 80
          /\ exact - 160 * out.value <= 80
          /\ (out.streak >= 10
              => out.value = calculate_xp(out.score, out.difficulty, 10, out.hint_used))
          /\ (out.score = 0 => out.value = 0)

\* C23 witness: the XP of a streak beyond 10 has been computed at the cap,
\* 20 * 3.0 * 2.5 = 150.
C23_Witness ==
    /\ out.op = "calculate_xp"
    /\ out.streak > 10
    /\ out.score = 3 /\ out.difficulty = "Master" /\ ~out.hint_used
    /\ out.value = 150

\* C21: the 'graph update' and 'score' commands reject a score outside
\* {0,1,2,3} before update_node or update runs and leave the mastery store
\* and the profile as they were; update_node itself takes any score and
\* treats an unrecognised one as the observation 0.0.
C21_ScoreValidatedAtBoundary ==
    [][/\ (last'.op \in {"cmd_graph_update", "cmd_score"} /\ last'.score \notin 0..3)
          => /\ last'.err = "SystemExit"
             /\ ~last'.called
             /\ store' = store
             /\ profile' = profile
       /\ (last'.op \in {"cmd_graph_update", "cmd_score"} /\ last'.called)
          => last'.score \in 0..3
       /\ (last'.op = "update_node" /\ last'.err = "none" /\ last'.score \notin 0..3)
          => /\ 10 * store'[last'.domain][last'.node_id].mastery
                  = 7 * PriorMastery(last'.domain, last'.node_id)
             /\ last'.node.attempts >= 1]_vars

\* C21 witness: a 'score' command with a score outside {0,1,2,3} has been
\* rejected after a 'graph update' command had written the store.
C21_Witness ==
    /\ last.op = "cmd_score" /\ last.score = 4
    /\ last.err = "SystemExit"
    /\ store # load_state_default
    /\ profile = DefaultProfile

\* An analysis without the domains that have no concept graph.
WithoutMissing(analysis) ==
    [order |-> SelectSeq(analysis.order, GraphExists),
     concepts |-> [d \in {x \in DOMAIN analysis.concepts : GraphExists(x)} |->
                     analysis.concepts[d]]]

\* C22: a run of the analyzer or of the merge over domains that include one
\* without a concept graph completes, yields no concepts and no store entry
\* for that domain, and yields for the other domains the scores and the
\* persisted store of the run without it.
C22_MissingGraphSkipped ==
    [][(/\ last'.op \in {"run_analysis", "apply_analysis_to_state"}
        /\ \E d \in Range(last'.analysis.order) : ~GraphExists(d))
       => /\ \A d \in DOMAIN store' : GraphExists(d) \/ d \in DOMAIN store
          /\ IF last'.op = "run_analysis"
             THEN LET r == run_analysis(store, last'.sessions,
                                        SelectSeq(last'.analysis.order, GraphExists),
                                        50, ~last'.applied, now)
                  IN /\ \A d \in Range(last'.analysis.order) :
                           IF GraphExists(d)
                           THEN last'.analysis.concepts[d] = r.analysis.concepts[d]
                           ELSE last'.analysis.concepts[d] = NoConcepts
                     /\ store' = r.state
             ELSE store' = apply_analysis_to_state(store, WithoutMissing(last'.analysis),
                                                   now)]_vars

\* C22 witness: a merge over a domain without a concept graph and a domain
\* with one has just written the second and made no entry for the first.
C22_Witness ==
    /\ last.op = "apply_analysis_to_state" /\ last.wrote
    /\ "X" \in Range(last.analysis.order)
    /\ Len(last.analysis.concepts["X"]["a1"].signals) > 0
    /\ "X" \notin DOMAIN store
    /\ store["A"]["a2"].last_seen = now
    /\ store["A"]["a2"].attempts = 2

\* The domains whose keywords a text matches.
Matched(text) == {DOMAIN_SIGNALS[i] : i \in {j \in 1..Len(DOMAIN_SIGNALS) : text[j] > 0}}

\* C24: for max_domains >= 1 infer_domains returns a non-empty list of at
\* most max_domains different ids that ends with 'algorithms': appended to
\* the matched domains when there is room, in place of the last of the
\* first max_domains otherwise; a text that matches no keyword gives
\* exactly ['algorithms'].
C24_AlwaysIncludesAlgorithms ==
    out.op = "infer_domains"
    => LET value == out.value
       IN /\ Len(value) >= 1
          /\ Len(value) <= out.max_domains
          /\ "algorithms" \in Range(value)
          /\ value[Len(value)] = "algorithms"
          /\ Len(value) = Min(out.max_domains, Cardinality(Matched(out.text)) + 1)
          /\ \A i \in 1..(Len(value) - 1) : value[i] \in Matched(out.text)
          /\ \A i, j \in 1..Len(value) : i # j => value[i] # value[j]
          /\ (Matched(out.text) = {} => value = <<"algorithms">>)

\* C24 witness: more domains matched than max_domains allows, and
\* 'algorithms' has taken the place of the last of the first three.
C24_Witness ==
    /\ out.op = "infer_domains" /\ out.max_domains = 3
    /\ Cardinality(Matched(out.text)) = 4
    /\ Len(out.value) = 3
    /\ out.value[1] = "devops"
    /\ out.value[2] = "quantum-ml"
    /\ out.value[3] = "algorithms"

\* The tag of the signal the specification gives to an intent.
TagOfIntent(q, c) ==
    IF q > c THEN "question" ELSE IF c > 0 THEN "assertion" ELSE "neutral_user"

\* The signals the specification gives a concept over the messages from
\* position i on: one per user turn whose text matches the concept, else one
\* 'claude_explained' per user turn directly followed by an assistant turn
\* whose text matches it.
RECURSIVE ExpectedSignals(_, _, _)
ExpectedSignals(lines, i, n) ==
    IF i > Len(lines) THEN <<>>
    ELSE (IF lines[i].role # "user" THEN <<>>
          ELSE IF n \in lines[i].text.mentions
          THEN <<TagOfIntent(lines[i].text.q, lines[i].text.c)>>
          ELSE IF /\ i < Len(lines)
                  /\ lines[i + 1].role = "assistant"
                  /\ n \in lines[i + 1].text.mentions
          THEN <<"claude_explained">>
          ELSE <<>>) \o ExpectedSignals(lines, i + 1, n)

\* The sum of the deltas of a list of signal tags, in units of 1/100.
RECURSIVE SumOfDeltas(_)
SumOfDeltas(tags) ==
    IF tags = <<>> THEN 0
    ELSE (CASE Head(tags) = "question" -> -15
            [] Head(tags) = "assertion" -> 20
            [] OTHER -> 5) + SumOfDeltas(Tail(tags))

\* C25: for each analysed domain with a graph, each concept of the graph
\* holds exactly the signals of the user turns that mention it (tagged by
\* the turn's intent) and of the assistant turns that mention it directly
\* after a user turn that does not, in turn order, and the clamped sum of
\* their deltas; a concept with no such turn is absent.
C25_PerTurnScoring ==
    out.op = "analyze_sessions"
    => \A d \in Range(out.domains) :
          IF ~GraphExists(d) THEN out.value.concepts[d] = NoConcepts
          ELSE /\ DOMAIN out.value.concepts[d] \subseteq GraphNodeIds(d)
               /\ \A n \in GraphNodeIds(d) :
                     LET expected == ExpectedSignals(inp, 1, n)
                     IN IF expected = <<>> THEN n \notin DOMAIN out.value.concepts[d]
                        ELSE /\ n \in DOMAIN out.value.concepts[d]
                             /\ out.value.concepts[d][n].signals = expected
                             /\ 100 * out.value.concepts[d][n].score =
                                   Max(0, Min(80, SumOfDeltas(expected))) * Scale

\* C25 witness: a concept mentioned by a user turn and by the assistant
\* turn after it holds the user signal alone, and an assistant turn that
\* follows another assistant turn has left no signal.
C25_Witness ==
    /\ out.op = "analyze_sessions" /\ out.domains = <<"A", "B">>
    /\ Len(inp) = 4
    /\ inp[1].role = "user" /\ inp[1].text.mentions = {"a1", "b1"}
    /\ inp[2].role = "assistant" /\ inp[2].text.mentions = {"b1"}
    /\ inp[3].role = "assistant" /\ inp[3].text.mentions = {"a2"}
    /\ inp[4].role = "user" /\ inp[4].text.mentions = {"a1"}
    /\ out.value.concepts["B"]["b1"].signals = <<"neutral_user">>
    /\ out.value.concepts["A"]["a1"].signals = <<"neutral_user", "assertion">>
    /\ "a2" \notin DOMAIN out.value.concepts["A"]

\* C26: classify_message_intent is decided by the two match counts alone.
\* With q matching question patterns and c matching confidence patterns
\* the result is "question" exactly when q > c, "assertion" exactly when
\* q <= c and c > 0, and "neutral" exactly when both counts are 0; equal
\* non-zero counts give "assertion".
C26_IntentByCounts ==
    out.op = "classify_message_intent" =>
        /\ (out.value = "question") = (out.q > out.c)
        /\ (out.value = "assertion") = (out.q <= out.c /\ out.c > 0)
        /\ (out.value = "neutral") = (out.q = 0 /\ out.c = 0)
        /\ (out.q = out.c /\ out.c > 0 => out.value = "assertion")

C26_Witness ==
    /\ out.op = "classify_message_intent"
    /\ out.q = 2
    /\ out.c = 2
    /\ out.value = "assertion"

\* The sessions run_analysis found are the files written, newest first.
NewestFirst(sessions, files) ==
    /\ Len(sessions) = Len(files)
    /\ \A f \in SessionFiles :
          Cardinality({i \in 1..Len(sessions) : sessions[i] = f})
              = Cardinality({i \in 1..Len(files) : files[i] = f})
    /\ \A i, j \in 1..Len(sessions) : i < j => sessions[i].mtime >= sessions[j].mtime

\* The transcripts of the first k sessions.
FirstTranscripts(sessions, k) == [i \in 1..k |-> sessions[i].lines]

\* What the claim says of one finished run: only the first max_sessions
\* sessions of the newest-first list are read.  Every session file holds
\* one user turn about "a1", so "a1" has one signal per session read, and
\* the analysis is the one of the first sessions alone.
OnlyFirstSessionsRead ==
    LET k == Min(Len(out.sessions), out.max_sessions)
    IN /\ NewestFirst(out.sessions, inp)
       /\ out.status = "success" =>
             /\ out.analysis
                  = analyze_sessions(FirstTranscripts(out.sessions, k), out.domains,
                                     Len(out.sessions))
             /\ IF k = 0 THEN "a1" \notin DOMAIN out.analysis.concepts["A"]
                ELSE Len(out.analysis.concepts["A"]["a1"].signals) = k

\* C27 as stated: run_analysis reads only the first max_sessions sessions
\* of the newest-first list and always reports
\* sessions_analyzed = min(sessions found, max_sessions).
C27_ReportsMinAlways ==
    out.op = "run_analysis" =>
        /\ OnlyFirstSessionsRead
        /\ out.sessions_analyzed = Min(Len(out.sessions), out.max_sessions)

\* C27 amended: run_analysis reads only the first max_sessions sessions of
\* the newest-first list, later sessions add no score and no signal, and a
\* run that analyses reports sessions_analyzed = min(sessions found,
\* max_sessions); a run that finds no session or has no domain analyses
\* nothing and reports 0.
C27_BoundedByMaxSessions ==
    out.op = "run_analysis" =>
        /\ OnlyFirstSessionsRead
        /\ out.status = "success" =>
              out.sessions_analyzed = Min(Len(out.sessions), out.max_sessions)
        /\ out.status # "success" =>
              /\ out.sessions_analyzed = 0
              /\ Len(out.sessions) = 0 \/ Len(out.domains) = 0

\* Three sessions found, two analysed: the oldest one, an assertion, is
\* left out and the two questions leave the score at 0.
C27_Witness ==
    /\ out.op = "run_analysis"
    /\ out.status = "success"
    /\ Len(out.sessions) = 3
    /\ out.max_sessions = 2
    /\ out.sessions_analyzed = 2
    /\ out.sessions[3].lines = Dialogue(1, Text(0, 1, {"a1"}))
    /\ out.sessions[3].mtime < out.sessions[2].mtime
    /\ inp[1] = out.sessions[3]
    /\ out.analysis.concepts["A"]["a1"].signals = <<"question", "question">>
    /\ out.analysis.concepts["A"]["a1"].score = 0

\* The attempts of a record before a step; a record that does not exist
\* yet has made none.
PriorAttempts(domain, node_id) ==
    IF domain \in DOMAIN store /\ node_id \in DOMAIN store[domain]
    THEN store[domain][node_id].attempts
    ELSE 0

\* C28: an update_node(domain, node_id, score) that returns raises the
\* attempts of (domain, node_id) by exactly 1 and sets its last_seen to the
\* current time; every other record that existed before the call, in
\* every domain, keeps its mastery, attempts, last_seen and status, also
\* when the call fails.  apply_decay and init_domain leave attempts and
\* last_seen of every existing record as they were.
C28_UpdateTouchesOneRecord ==
    [][/\ last'.op = "update_node" =>
            /\ last'.err = "none" =>
                  /\ store'[last'.domain][last'.node_id].attempts
                        = PriorAttempts(last'.domain, last'.node_id) + 1
                  /\ store'[last'.domain][last'.node_id].last_seen = now
            /\ \A k \in Records :
                  k # <<last'.domain, last'.node_id>> \/ last'.err # "none" =>
                      /\ k[1] \in DOMAIN store'
                      /\ k[2] \in DOMAIN store'[k[1]]
                      /\ store'[k[1]][k[2]] = store[k[1]][k[2]]
       /\ last'.op \in {"apply_decay", "init_domain"} =>
            \A k \in Records :
                /\ k[1] \in DOMAIN store'
                /\ k[2] \in DOMAIN store'[k[1]]
                /\ store'[k[1]][k[2]].attempts = store[k[1]][k[2]].attempts
                /\ store'[k[1]][k[2]].last_seen = store[k[1]][k[2]].last_seen]_vars

\* "b1" was updated a tick after "a1": the record of "a1", in the other
\* domain, still has its one attempt and its earlier last_seen, and the
\* untouched siblings of "a1" are as init_domain made them.
C28_Witness ==
    /\ last.op = "update_node"
    /\ last.err = "none"
    /\ last.domain = "B"
    /\ last.node_id = "b1"
    /\ now > 0
    /\ store["B"]["b1"].attempts = 1
    /\ store["B"]["b1"].last_seen = now
    /\ "A" \in DOMAIN store
    /\ store["A"]["a1"].attempts = 1
    /\ store["A"]["a1"].last_seen = 0
    /\ store["A"]["a1"].mastery > 0
    /\ store["A"]["a2"] = ZeroRecord

\* The number of times a tag occurs in a signals list.
CountTag(signals, tag) == Cardinality({i \in 1..Len(signals) : signals[i] = tag})

SignalTags == {"question", "assertion", "neutral_user", "claude_explained"}

\* clamp(0.20 * a - 0.15 * q + 0.05 * n, 0, 0.8) in steps of 0.05.
FormulaSteps(signals) ==
    Max(0, Min(16, 4 * CountTag(signals, "assertion") - 3 * CountTag(signals, "question")
                   + CountTag(signals, "neutral_user")
                   + CountTag(signals, "claude_explained")))

\* C29 (as stated): the analysis of reordered sessions, or of sessions
\* with reordered user turns, has for every concept the same final score
\* and the same multiset of signal tags as the analysis of the original,
\* and the score is clamp(0.20 * a - 0.15 * q + 0.05 * n, 0, 0.8).  The
\* two final scores are compared as the floats the two calls return, the
\* closed form is read in exact arithmetic.
C29_OrderIndependent ==
    out.op = "analyze_sessions" /\ "sessions" \in DOMAIN out /\ "reordered" \in DOMAIN out =>
        /\ DOMAIN out.first.concepts["A"] = DOMAIN out.second.concepts["A"]
        /\ \A n \in DOMAIN out.first.concepts["A"] :
              /\ \A tag \in SignalTags :
                    CountTag(out.first.concepts["A"][n].signals, tag)
                        = CountTag(out.second.concepts["A"][n].signals, tag)
              /\ out.first_scores["A"][n] = out.second_scores["A"][n]
              /\ 20 * out.first.concepts["A"][n].score
                    = Scale * FormulaSteps(out.first.concepts["A"][n].signals)

\* C30 (as stated): every tuple get_weak_nodes returns has
\* priority = reuse_weight * (1 - mastery of its node_state), also when
\* another process wrote the store while the call was running.
C30_TuplesConsistent ==
    out.op = "get_weak_nodes" =>
        \A i \in 1..Len(out.value) :
            out.value[i].priority
                = out.value[i].node.reuse_weight * (Scale - out.value[i].node_state.mastery)

====
